---- MODULE Spec2Model ----
(***************************************************************************)
(* Model of the delta messaging core: the per-author operation log store,  *)
(* the inbound paths (ingest_op, gossip drain), the projector and the      *)
(* relational read model, the user-facing mutations of lib.rs and the      *)
(* membership authorization functions of auth.rs.                          *)
(***************************************************************************)
EXTENDS Integers, Sequences, FiniteSets, TLC

\* ------------------------------------------------------------------ bounds
\* Largest number of rows the operation store may hold in the model.
MaxOps == 3

\* ------------------------------------------------------------ identities
\* The local peer (core.private_key.public_key()).
Me == "a_me"
\* A remote peer that publishes its own logs with the same code.
Peer == "b_peer"
\* An identity whose private key nobody in the model holds; ops carrying
\* this public_key are forgeries and their signature does not verify.
Ghost == "c_ghost"

\* Authors in the order get_log_heights lists them (by public key).
AuthorOrder == <<Me, Peer, Ghost>>

Keys == {Me, Peer, Ghost}

\* ---------------------------------------------------------------- log ids
ORG == "org"
ROOM == "room"
MESSAGE == "message"
MEMBERSHIP == "membership"

\* log_ids::ALL, in its order, for the logs that have a typed handler and
\* that the modelled operations write.
ALL == <<ORG, ROOM, MESSAGE, MEMBERSHIP>>

LogIds == {ALL[i] : i \in DOMAIN ALL}

\* ------------------------------------------------------------ option type
\* Option<T> is a sequence of length 0 (None) or 1 (Some(v)).
None == <<>>

Some(v) == <<v>>

IsSome(o) == Len(o) = 1

Unwrap(o) == o[1]

\* ---------------------------------------------------------- access levels
\* AccessLevel, in declaration order: derive(PartialOrd, Ord) orders the
\* variants by position.
AccessLevels == <<"pull", "read", "write", "manage">>

LevelNames == {AccessLevels[i] : i \in DOMAIN AccessLevels}

LevelRank(l) == CHOOSE i \in DOMAIN AccessLevels : AccessLevels[i] = l

\* ------------------------------------------------------------- op bodies
\* A body is the CBOR encoding of one payload struct.  `ty` names the struct
\* that was encoded; the other fields are the struct's fields (unused ones
\* are None / "" / FALSE so that every body has the same shape).
Body(ty, op_type, org_id, room_id, name, is_public, member_key, access_level, text) ==
    [ty |-> ty, op_type |-> op_type, org_id |-> org_id, room_id |-> room_id,
     name |-> name, is_public |-> is_public, member_key |-> member_key,
     access_level |-> access_level, text |-> text]

OrgOp(name, is_public) ==
    Body("OrgOp", "create_org", None, None, Some(name), Some(is_public), None, None, None)

OrgUpdateOp(org_id, name, is_public) ==
    Body("OrgUpdateOp", "update_org", Some(org_id), None, name, is_public, None, None, None)

RoomOp(org_id, name) ==
    Body("RoomOp", "create_room", Some(org_id), None, Some(name), None, None, None, None)

RoomUpdateOp(room_id, org_id, name) ==
    Body("RoomUpdateOp", "update_room", Some(org_id), Some(room_id), name, None, None, None, None)

RoomDeleteOp(op_type, room_id, org_id) ==
    Body("RoomDeleteOp", op_type, Some(org_id), Some(room_id), None, None, None, None, None)

MessageOp(op_type, room_id, text) ==
    Body("MessageOp", op_type, None, room_id, None, None, None, None, text)

MembershipOp(op_type, org_id, member_key, access_level) ==
    Body("MembershipOp", op_type, Some(org_id), None, None, None, Some(member_key), access_level, None)

\* Bytes that are not the CBOR of any payload struct.
MalformedBody ==
    Body("garbage", "", None, None, None, None, None, None, None)

\* decode_cbor::<T>(body): serde accepts a map that has every required field
\* of T with the right type; it ignores extra fields and reads a missing
\* Option field as None.
DecodesAs(T, body) ==
    CASE T = "OrgUpdateOp"  -> body.ty \in {"OrgUpdateOp", "RoomOp", "RoomUpdateOp",
                                           "RoomDeleteOp", "MembershipOp"}
      [] T = "OrgOp"        -> body.ty \in {"OrgOp"}
      [] T = "RoomUpdateOp" -> body.ty \in {"RoomUpdateOp", "RoomDeleteOp"}
      [] T = "RoomDeleteOp" -> body.ty \in {"RoomDeleteOp", "RoomUpdateOp"}
      [] T = "RoomOp"       -> body.ty \in {"RoomOp"}
      [] T = "MessageOp"    -> body.ty \in {"MessageOp"}
      [] T = "MembershipOp" -> body.ty \in {"MembershipOp"}
      [] OTHER              -> FALSE

\* ---------------------------------------------------------------- headers
\* A stored operation: the header fields, the body and the log_id it was
\* stored under.  sig_ok says whether the header's signature verifies
\* against public_key.
Op(public_key, log_id, seq_num, backlink, body, sig_ok) ==
    [public_key |-> public_key, log_id |-> log_id, seq_num |-> seq_num,
     backlink |-> backlink, body |-> body, sig_ok |-> sig_ok]

\* header.hash(): a collision-free digest of the signed header (public key,
\* signature, payload hash, seq_num, backlink).  The log_id is not part of
\* the header.
Hash(op) == <<op.public_key, op.seq_num, op.backlink, op.body, op.sig_ok>>

\* -------------------------------------------------------- operation store
\* latest_operation(public_key, log_id): the row of that log with the
\* highest seq_num, or None.
LatestOperation(store, public_key, log_id) ==
    LET rows == {o \in store : o.public_key = public_key /\ o.log_id = log_id}
    IN  IF rows = {} THEN None
        ELSE Some(CHOOSE o \in rows : \A p \in rows : p.seq_num <= o.seq_num)

\* A variant of the insert that replaces the row of a stored hash.
InsertOperationReplace(store, op) ==
    {o \in store : Hash(o) # Hash(op)} \cup {op}

\* insert_operation(hash, header, body, header_bytes, log_id): the row is
\* keyed by the op hash and a second insert of a stored hash is ignored.
\* The store does not look at the signature, at seq_num or at the backlink.
InsertOperation(store, op) ==
    IF \E o \in store : Hash(o) = Hash(op) THEN store ELSE store \cup {op}

RECURSIVE SortBySeq(_)
SortBySeq(rows) ==
    IF rows = {} THEN <<>>
    ELSE LET m == CHOOSE o \in rows : \A p \in rows : o.seq_num <= p.seq_num
         IN  <<m>> \o SortBySeq(rows \ {m})

\* get_log(public_key, log_id, from): the rows of the log with
\* seq_num >= from (all rows when from is None) in seq_num order, or None
\* when there is no such row.
GetLog(store, public_key, log_id, from) ==
    LET lo   == IF IsSome(from) THEN Unwrap(from) ELSE 0
        rows == {o \in store : /\ o.public_key = public_key
                               /\ o.log_id = log_id
                               /\ o.seq_num >= lo}
    IN  IF rows = {} THEN None ELSE Some(SortBySeq(rows))

\* get_log_heights(log_id): the authors that have rows in the log.
GetLogHeights(store, log_id) ==
    SelectSeq(AuthorOrder,
              LAMBDA a : \E o \in store : o.public_key = a /\ o.log_id = log_id)

\* The seq_num and backlink sign_and_store_op gives the next header.
NextSeqAndBacklinkStale(latest) ==
    IF IsSome(latest)
    THEN [seq_num |-> Unwrap(latest).seq_num, backlink |-> Unwrap(latest).backlink]
    ELSE [seq_num |-> 0, backlink |-> None]

NextSeqAndBacklink(latest) ==
    IF IsSome(latest)
    THEN [seq_num |-> Unwrap(latest).seq_num + 1,
          backlink |-> Some(Hash(Unwrap(latest)))]
    ELSE [seq_num |-> 0, backlink |-> None]

\* sign_and_store_op(store, private_key, log_id, body_bytes): build the
\* header after the latest op of the log, sign it with the caller's key and
\* insert it.  Gives the new store and the stored op.
SignAndStoreOp(store, public_key, log_id, body) ==
    LET nx == NextSeqAndBacklink(LatestOperation(store, public_key, log_id))
        op == Op(public_key, log_id, nx.seq_num, nx.backlink, body, TRUE)
    IN  [store |-> InsertOperation(store, op), op |-> op, hash |-> Hash(op)]

\* -------------------------------------------------------------- read model
\* The read model is a record of tables; a table is a function from its
\* primary key to the row's other columns.  The created_at, updated_at and
\* joined_at columns are left out; edited_at and archived_at are kept as
\* present (TRUE) or NULL (FALSE).
Put(f, k, v) == [x \in (DOMAIN f) \cup {k} |-> IF x = k THEN v ELSE f[x]]

Del(f, k) == [x \in (DOMAIN f) \ {k} |-> f[x]]

EmptyReadModel ==
    [orgs |-> <<>>, rooms |-> <<>>, messages |-> <<>>, memberships |-> <<>>,
     cursors |-> <<>>]

\* insert_org: INSERT ... ON CONFLICT(org_id) DO UPDATE SET name, ..., is_public.
insert_org(rm, org_id, row) ==
    IF org_id \in DOMAIN rm.orgs
    THEN [rm EXCEPT !.orgs = Put(@, org_id,
              [@[org_id] EXCEPT !.name = row.name, !.is_public = row.is_public])]
    ELSE [rm EXCEPT !.orgs = Put(@, org_id, row)]

\* update_org: UPDATE organizations SET <the fields that are Some> WHERE org_id = ?.
update_org(rm, org_id, name, is_public) ==
    IF org_id \in DOMAIN rm.orgs
    THEN [rm EXCEPT !.orgs = Put(@, org_id,
              [name        |-> IF IsSome(name) THEN Unwrap(name) ELSE @[org_id].name,
               is_public   |-> IF IsSome(is_public) THEN Unwrap(is_public)
                               ELSE @[org_id].is_public,
               creator_key |-> @[org_id].creator_key])]
    ELSE rm

\* upsert_membership: ON CONFLICT(org_id, member_key) DO UPDATE SET access_level.
upsert_membership(rm, org_id, member_key, access_level) ==
    [rm EXCEPT !.memberships = Put(@, <<org_id, member_key>>, access_level)]

\* DELETE FROM memberships WHERE org_id = ? AND member_key = ?.
delete_membership(rm, org_id, member_key) ==
    [rm EXCEPT !.memberships = Del(@, <<org_id, member_key>>)]

\* insert_room: ON CONFLICT(room_id) DO UPDATE SET name, enc_key_epoch,
\* is_archived, archived_at.
insert_room(rm, room_id, row) ==
    IF room_id \in DOMAIN rm.rooms
    THEN [rm EXCEPT !.rooms = Put(@, room_id,
              [@[room_id] EXCEPT !.name = row.name,
                                 !.is_archived = row.is_archived,
                                 !.archived_at = row.archived_at])]
    ELSE [rm EXCEPT !.rooms = Put(@, room_id, row)]

\* update_room: UPDATE rooms SET name = ? WHERE room_id = ?, when name is Some.
update_room(rm, room_id, name) ==
    IF IsSome(name) /\ room_id \in DOMAIN rm.rooms
    THEN [rm EXCEPT !.rooms = Put(@, room_id, [@[room_id] EXCEPT !.name = Unwrap(name)])]
    ELSE rm

delete_room(rm, room_id) == [rm EXCEPT !.rooms = Del(@, room_id)]

archive_room(rm, room_id) ==
    IF room_id \in DOMAIN rm.rooms
    THEN [rm EXCEPT !.rooms = Put(@, room_id,
              [@[room_id] EXCEPT !.is_archived = TRUE, !.archived_at = TRUE])]
    ELSE rm

unarchive_room(rm, room_id) ==
    IF room_id \in DOMAIN rm.rooms
    THEN [rm EXCEPT !.rooms = Put(@, room_id,
              [@[room_id] EXCEPT !.is_archived = FALSE, !.archived_at = FALSE])]
    ELSE rm

get_room(rm, room_id) ==
    IF room_id \in DOMAIN rm.rooms THEN Some(rm.rooms[room_id]) ELSE None

\* insert_message: the INSERT leaves edited_at NULL; ON CONFLICT(message_id)
\* DO UPDATE SET text_content, edited_at = now, is_deleted.
insert_message(rm, message_id, row) ==
    IF message_id \in DOMAIN rm.messages
    THEN [rm EXCEPT !.messages = Put(@, message_id,
              [@[message_id] EXCEPT !.text_content = row.text_content,
                                    !.edited_at = TRUE,
                                    !.is_deleted = row.is_deleted])]
    ELSE [rm EXCEPT !.messages = Put(@, message_id, [row EXCEPT !.edited_at = FALSE])]

\* get_cursor: last_seq_num of the row, 0 when there is no row.
get_cursor(rm, log_id, public_key) ==
    IF <<log_id, public_key>> \in DOMAIN rm.cursors
    THEN rm.cursors[<<log_id, public_key>>] ELSE 0

\* set_cursor: upsert of the row.
set_cursor(rm, log_id, public_key, seq_num) ==
    [rm EXCEPT !.cursors = Put(@, <<log_id, public_key>>, seq_num)]

\* --------------------------------------------------------------- projector
\* A handler gives the read model it leaves and whether it returned Ok.
Handled(rm, ok) == [rm |-> rm, ok |-> ok]

\* A variant that files the org under an id of the projector's own.
project_org_own_id(rm, author_key, op_hash, body) ==
    IF DecodesAs("OrgUpdateOp", body) /\ body.op_type = "update_org"
    THEN Handled(update_org(rm, Unwrap(body.org_id), body.name, body.is_public), TRUE)
    ELSE IF DecodesAs("OrgOp", body)
    THEN Handled(
            upsert_membership(
                insert_org(rm, <<op_hash>>,
                           [name |-> Unwrap(body.name),
                            is_public |-> Unwrap(body.is_public),
                            creator_key |-> author_key]),
                op_hash, author_key, "manage"),
            TRUE)
    ELSE Handled(rm, FALSE)

project_org(rm, author_key, op_hash, body) ==
    IF DecodesAs("OrgUpdateOp", body) /\ body.op_type = "update_org"
    THEN Handled(update_org(rm, Unwrap(body.org_id), body.name, body.is_public), TRUE)
    ELSE IF DecodesAs("OrgOp", body)
    THEN Handled(
            upsert_membership(
                insert_org(rm, op_hash,
                           [name |-> Unwrap(body.name),
                            is_public |-> Unwrap(body.is_public),
                            creator_key |-> author_key]),
                op_hash, author_key, "manage"),
            TRUE)
    ELSE Handled(rm, FALSE)

project_room(rm, author_key, op_hash, body) ==
    IF DecodesAs("RoomUpdateOp", body) /\ body.op_type = "update_room"
    THEN Handled(update_room(rm, Unwrap(body.room_id), body.name), TRUE)
    ELSE IF DecodesAs("RoomDeleteOp", body) /\ body.op_type = "delete_room"
    THEN Handled(delete_room(rm, Unwrap(body.room_id)), TRUE)
    ELSE IF DecodesAs("RoomDeleteOp", body) /\ body.op_type = "archive_room"
    THEN Handled(archive_room(rm, Unwrap(body.room_id)), TRUE)
    ELSE IF DecodesAs("RoomOp", body)
    THEN Handled(
            insert_room(rm, op_hash,
                        [org_id |-> Unwrap(body.org_id), name |-> Unwrap(body.name),
                         created_by |-> author_key, is_archived |-> FALSE,
                         archived_at |-> FALSE]),
            TRUE)
    ELSE Handled(rm, FALSE)

project_message(rm, author_key, op_hash, body) ==
    IF DecodesAs("MessageOp", body)
    THEN Handled(
            insert_message(rm, op_hash,
                           [room_id |-> body.room_id, author_key |-> author_key,
                            text_content |-> body.text, edited_at |-> FALSE,
                            is_deleted |-> (body.op_type = "delete")]),
            TRUE)
    ELSE Handled(rm, FALSE)

project_membership(rm, author_key, body) ==
    IF ~DecodesAs("MembershipOp", body) THEN Handled(rm, FALSE)
    ELSE IF body.op_type \in {"add_member", "change_permission"}
    THEN IF IsSome(body.access_level)
         THEN Handled(upsert_membership(rm, Unwrap(body.org_id), Unwrap(body.member_key),
                                        Unwrap(body.access_level)), TRUE)
         ELSE Handled(rm, TRUE)
    ELSE IF body.op_type = "remove_member"
    THEN Handled(delete_membership(rm, Unwrap(body.org_id), Unwrap(body.member_key)), TRUE)
    ELSE Handled(rm, TRUE)

\* The match on log_id in project_tick.
Dispatch(rm, log_id, op) ==
    CASE log_id = ORG        -> project_org(rm, op.public_key, Hash(op), op.body)
      [] log_id = ROOM       -> project_room(rm, op.public_key, Hash(op), op.body)
      [] log_id = MESSAGE    -> project_message(rm, op.public_key, Hash(op), op.body)
      [] log_id = MEMBERSHIP -> project_membership(rm, op.public_key, op.body)
      [] OTHER               -> Handled(rm, TRUE)

\* The projector's progress through a tick: the read model so far and the
\* ops dispatched so far, in dispatch order, each with its handler's result.
Progress(rm, disp) == [rm |-> rm, disp |-> disp]

\* One op of the inner loop: dispatch, log an error, then set_cursor.
ProjectOpHaltOnError(st, log_id, op) ==
    LET h == Dispatch(st.rm, log_id, op)
    IN  IF h.ok
        THEN Progress(set_cursor(h.rm, log_id, op.public_key, op.seq_num),
                      Append(st.disp, [log_id |-> log_id, public_key |-> op.public_key,
                                       seq_num |-> op.seq_num, hash |-> Hash(op),
                                       ok |-> h.ok]))
        ELSE Progress(h.rm,
                      Append(st.disp, [log_id |-> log_id, public_key |-> op.public_key,
                                       seq_num |-> op.seq_num, hash |-> Hash(op),
                                       ok |-> h.ok]))

ProjectOp(st, log_id, op) ==
    LET h == Dispatch(st.rm, log_id, op)
    IN  Progress(set_cursor(h.rm, log_id, op.public_key, op.seq_num),
                 Append(st.disp, [log_id |-> log_id, public_key |-> op.public_key,
                                  seq_num |-> op.seq_num, hash |-> Hash(op),
                                  ok |-> h.ok]))

RECURSIVE ProjectOps(_, _, _)
ProjectOps(st, log_id, ops) ==
    IF ops = <<>> THEN st
    ELSE ProjectOps(ProjectOp(st, log_id, Head(ops)), log_id, Tail(ops))

\* The first seq_num the projector asks get_log for.
FromCursor(cursor) == IF cursor = 0 THEN None ELSE Some(cursor + 1)

\* One (author, log) of the middle loop: read the cursor, fetch the ops
\* from it on and project them.
ProjectLog(st, store, log_id, public_key) ==
    LET cursor == get_cursor(st.rm, log_id, public_key)
        ops    == GetLog(store, public_key, log_id, FromCursor(cursor))
    IN  IF IsSome(ops) THEN ProjectOps(st, log_id, Unwrap(ops)) ELSE st

RECURSIVE ProjectAuthors(_, _, _, _)
ProjectAuthors(st, store, log_id, heights) ==
    IF heights = <<>> THEN st
    ELSE ProjectAuthors(ProjectLog(st, store, log_id, Head(heights)),
                        store, log_id, Tail(heights))

RECURSIVE ProjectLogs(_, _, _)
ProjectLogs(st, store, logs) ==
    IF logs = <<>> THEN st
    ELSE ProjectLogs(ProjectAuthors(st, store, Head(logs), GetLogHeights(store, Head(logs))),
                     store, Tail(logs))

\* project_tick: every log of log_ids::ALL, every author of the log, every
\* op after the cursor, under the op store lock.
project_tick(store, rm) == ProjectLogs(Progress(rm, <<>>), store, ALL)

\* ------------------------------------------------------------------- auth
\* MembershipState.members is a map from member key to access level.

\* A variant of the level test that asks for a level above the required one.
level_has_permission_strict(level, required) == LevelRank(level) > LevelRank(required)

\* AccessLevel::has_permission: self >= required.
level_has_permission(level, required) == LevelRank(level) >= LevelRank(required)

\* MembershipState::has_permission: false for a key that is not a member.
has_permission(members, member_key, required) ==
    /\ member_key \in DOMAIN members
    /\ level_has_permission(members[member_key], required)

\* What add_member, remove_member and change_permission give back: Ok or the
\* error, and the state they leave.
AuthOk(members) == [ok |-> TRUE, err |-> "", members |-> members]

AuthErr(err, members) == [ok |-> FALSE, err |-> err, members |-> members]

\* A variant of the Manage check that admits Write as well.
CallerMayManageLax(members, caller_key) == has_permission(members, caller_key, "write")

\* The check all three functions start with.
CallerMayManage(members, caller_key) == has_permission(members, caller_key, "manage")

add_member(members, adder_key, new_member_key, access_level) ==
    IF ~CallerMayManage(members, adder_key)
    THEN AuthErr("Unauthorized", members)
    ELSE AuthOk(Put(members, new_member_key, access_level))

\* A variant of the self-removal check that never fires.
IsSelfRemovalNever(remover_key, member_to_remove) == FALSE

\* remover_key == member_to_remove
IsSelfRemoval(remover_key, member_to_remove) == remover_key = member_to_remove

remove_member(members, remover_key, member_to_remove) ==
    IF ~CallerMayManage(members, remover_key)
    THEN AuthErr("Unauthorized", members)
    ELSE IF IsSelfRemoval(remover_key, member_to_remove)
    THEN AuthErr("Unauthorized", members)
    ELSE AuthOk(Del(members, member_to_remove))

change_permission(members, changer_key, target_member, new_level) ==
    IF ~CallerMayManage(members, changer_key)
    THEN AuthErr("Unauthorized", members)
    ELSE AuthOk(Put(members, target_member, new_level))

\* get_org_membership_state: the membership rows of the org as a
\* MembershipState.
get_org_membership_state(rm, org_id) ==
    LET ks == {k \in Keys : <<org_id, k>> \in DOMAIN rm.memberships}
    IN  [k \in ks |-> rm.memberships[<<org_id, k>>]]

\* ------------------------------------------------------------------ state
VARIABLES
    opStore,     \* core.op_store: the rows of the operation store
    readModel,   \* core.read_pool: the tables of the read model
    topicSeq,    \* the topic_seq table: topic_hex -> last_seq
    result,      \* the last call: its name, whether it returned Ok, and
                 \* whether its insert met a hash that was already stored
    lastTick,    \* the last project_tick, when it is the last step taken:
                 \* the ops it dispatched and the cursor rows it started from
    members,     \* a MembershipState handed to the auth functions
    authCall,    \* the last auth call: function, arguments, state before, result
    token,       \* an InviteToken as its holder presents it
    inviteCall,  \* the last InviteToken::verify: the time, the token, the result
    permCall,    \* the last has_permission: receiver, arguments, result
    ordState,    \* a DeltaOrderingState or DeltaFsOrderingState
    ordHist,     \* which of the two it is, the messages queued so far, those
                 \* next_ready_message has returned, and the number queued
                 \* when set_welcome ran
    ordCall,     \* the last next_ready_message: the state before, the answer
    encDb,       \* the enc_group_state row of the room and the enc_key_manager
                 \* and enc_key_registry rows
    encMem,      \* EncryptionCore.key_manager and EncryptionCore.key_registry
    encProc,     \* each caller of encrypt_for_room / decrypt_for_room: where
                 \* it is in the call and what it holds
    encCall,     \* the call that returned last
    encHist,     \* the calls begun, the sends returned and the bodies they gave
    envelope,    \* a sealed-sender envelope on the wire
    sealHist,    \* the seal call that made it: op, sender, recipient
    openCall,    \* the last open: the seed's owner, the envelope, the result
    onionPacket, \* build_onion_packet's result, then the packet in flight
    onionAt,     \* the position in the route of the hop that holds the packet
    onionHist,   \* the route, topic and op the packet was built from
    peelCall,    \* the last decrypt_layer: who peeled what, and the result
    drainCall,   \* the last message the gossip drain took: bytes, store before
    topicMap,    \* DeltaTopicMap: topic -> author -> log ids
    tmHist,      \* the triples inserted and not removed since, and a count
    tmCall,      \* the last get: the topic and the logs returned
    bootCore,    \* CORE: the process whose bootstrap call published it, or ""
    bootProc,    \* each caller of bootstrap: where it stands, what it returned
    bootTasks,   \* how many projector tasks, network cores, encryption
                 \* singletons and republish loops exist
    mutCall,     \* the last mutation called with a write that may fail: its outcome
    nameCall,    \* the last create_room or update_room called with a name: its outcome
    everDisp,    \* the hashes of the ops the ticks of run_projector have dispatched
    tickBit,     \* 0 or 1, flipped by every tick of run_projector
    dgm,         \* a DeltaAckedDgmState
    sub,         \* NetworkCore.subscribed, the drain tasks and the log-sync streams
    subProc,     \* where each caller of subscribe_topic_inner is
    pubLock,     \* the holder of the Mutex around core.op_store
    pubProc,     \* where each caller of send_message is
    pubCalls     \* the number of send_message calls begun

vars ==
    <<opStore, readModel, topicSeq, result, lastTick, members, authCall,
      token, inviteCall, permCall, ordState, ordHist, ordCall,
      encDb, encMem, encProc, encCall, encHist,
      envelope, sealHist, openCall,
      onionPacket, onionAt, onionHist, peelCall, drainCall,
      topicMap, tmHist, tmCall,
      bootCore, bootProc, bootTasks,
      mutCall,
      nameCall,
      everDisp, tickBit,
      dgm,
      sub, subProc,
      pubLock, pubProc, pubCalls>>

coreVars == <<opStore, readModel, topicSeq, result, lastTick>>

authVars == <<members, authCall, permCall>>

inviteVars == <<token, inviteCall>>

\* The variables of the parts that run apart from the core and from the
\* membership functions.
ordVars == <<ordState, ordHist, ordCall>>

encVars == <<encDb, encMem, encProc, encCall, encHist>>

sealVars == <<envelope, sealHist, openCall>>

onionVars == <<onionPacket, onionAt, onionHist, peelCall>>

drainVars == <<drainCall>>

tmVars == <<topicMap, tmHist, tmCall>>

bootVars == <<bootCore, bootProc, bootTasks>>

mutVars == <<mutCall>>

nameVars == <<nameCall>>

liveVars == <<everDisp, tickBit>>

dgmVars == <<dgm>>

subVars == <<sub, subProc>>

pubVars == <<pubLock, pubProc, pubCalls>>

extVars ==
    <<inviteVars, ordVars, encVars, sealVars, onionVars, drainVars, tmVars,
      bootVars, mutVars, nameVars, liveVars, dgmVars, subVars, pubVars>>

Result(call, ok, dup) == [call |-> call, ok |-> ok, dup |-> dup]

NoTick == [disp |-> <<>>, cursors |-> <<>>, ran |-> FALSE]

NoAuthCall ==
    [fn |-> "", caller |-> "", target |-> "", before |-> <<>>, ok |-> TRUE, err |-> ""]

\* The values the variables of a part have while the part is not exercised.
CoreIdle ==
    /\ opStore = {}
    /\ readModel = EmptyReadModel
    /\ topicSeq = <<>>
    /\ result = Result("", TRUE, FALSE)
    /\ lastTick = NoTick

AuthIdle ==
    /\ members = <<>>
    /\ authCall = NoAuthCall
    /\ permCall = <<>>

InviteIdle ==
    /\ token = <<>>
    /\ inviteCall = <<>>

OrdIdle ==
    /\ ordState = <<>>
    /\ ordHist = <<>>
    /\ ordCall = <<>>

EncIdle ==
    /\ encDb = <<>>
    /\ encMem = <<>>
    /\ encProc = <<>>
    /\ encCall = <<>>
    /\ encHist = <<>>

SealIdle ==
    /\ envelope = <<>>
    /\ sealHist = <<>>
    /\ openCall = <<>>

OnionIdle ==
    /\ onionPacket = <<>>
    /\ onionAt = 0
    /\ onionHist = <<>>
    /\ peelCall = <<>>

DrainIdle == drainCall = <<>>

TmIdle ==
    /\ topicMap = <<>>
    /\ tmHist = <<>>
    /\ tmCall = <<>>

BootIdle ==
    /\ bootCore = ""
    /\ bootProc = <<>>
    /\ bootTasks = <<>>

MutIdle == mutCall = <<>>

NameIdle == nameCall = <<>>

LiveIdle ==
    /\ everDisp = {}
    /\ tickBit = 0

DgmIdle == dgm = <<>>

SubIdle ==
    /\ sub = <<>>
    /\ subProc = <<>>

PubIdle ==
    /\ pubLock = ""
    /\ pubProc = <<>>
    /\ pubCalls = 0

\* Every part outside parts is idle.
IdleExcept(parts) ==
    /\ IF "core" \in parts THEN TRUE ELSE CoreIdle
    /\ IF "auth" \in parts THEN TRUE ELSE AuthIdle
    /\ IF "invite" \in parts THEN TRUE ELSE InviteIdle
    /\ IF "ord" \in parts THEN TRUE ELSE OrdIdle
    /\ IF "enc" \in parts THEN TRUE ELSE EncIdle
    /\ IF "seal" \in parts THEN TRUE ELSE SealIdle
    /\ IF "onion" \in parts THEN TRUE ELSE OnionIdle
    /\ IF "drain" \in parts THEN TRUE ELSE DrainIdle
    /\ IF "tm" \in parts THEN TRUE ELSE TmIdle
    /\ IF "boot" \in parts THEN TRUE ELSE BootIdle
    /\ IF "mut" \in parts THEN TRUE ELSE MutIdle
    /\ IF "name" \in parts THEN TRUE ELSE NameIdle
    /\ IF "live" \in parts THEN TRUE ELSE LiveIdle
    /\ IF "dgm" \in parts THEN TRUE ELSE DgmIdle
    /\ IF "sub" \in parts THEN TRUE ELSE SubIdle
    /\ IF "pub" \in parts THEN TRUE ELSE PubIdle

\* A step of parts leaves every other part alone.
OthersUnchanged(parts) ==
    /\ IF "core" \in parts THEN TRUE ELSE UNCHANGED coreVars
    /\ IF "auth" \in parts THEN TRUE ELSE UNCHANGED authVars
    /\ IF "invite" \in parts THEN TRUE ELSE UNCHANGED inviteVars
    /\ IF "ord" \in parts THEN TRUE ELSE UNCHANGED ordVars
    /\ IF "enc" \in parts THEN TRUE ELSE UNCHANGED encVars
    /\ IF "seal" \in parts THEN TRUE ELSE UNCHANGED sealVars
    /\ IF "onion" \in parts THEN TRUE ELSE UNCHANGED onionVars
    /\ IF "drain" \in parts THEN TRUE ELSE UNCHANGED drainVars
    /\ IF "tm" \in parts THEN TRUE ELSE UNCHANGED tmVars
    /\ IF "boot" \in parts THEN TRUE ELSE UNCHANGED bootVars
    /\ IF "mut" \in parts THEN TRUE ELSE UNCHANGED mutVars
    /\ IF "name" \in parts THEN TRUE ELSE UNCHANGED nameVars
    /\ IF "live" \in parts THEN TRUE ELSE UNCHANGED liveVars
    /\ IF "dgm" \in parts THEN TRUE ELSE UNCHANGED dgmVars
    /\ IF "sub" \in parts THEN TRUE ELSE UNCHANGED subVars
    /\ IF "pub" \in parts THEN TRUE ELSE UNCHANGED pubVars

\* --------------------------------------------------------- remote traffic
\* The remote peer publishes with sign_and_store_op into its own store.
PeerStore1 == SignAndStoreOp({}, Peer, ORG, OrgOp("peerorg", FALSE))

PeerOrgId == PeerStore1.hash

PeerStore2 == SignAndStoreOp(PeerStore1.store, Peer, ROOM, RoomOp(PeerOrgId, "lobby"))

PeerRoomId == PeerStore2.hash

PeerStore3 == SignAndStoreOp(PeerStore2.store, Peer, MESSAGE, MalformedBody)

PeerStore4 ==
    SignAndStoreOp(PeerStore3.store, Peer, MESSAGE,
                   MessageOp("send", Some(PeerRoomId), Some("yo")))

PeerStore5 ==
    SignAndStoreOp(PeerStore4.store, Peer, MEMBERSHIP,
                   MembershipOp("add_member", PeerOrgId, Me, Some("write")))

\* A header that names Ghost as its author and carries a signature that
\* does not verify.
ForgedOp ==
    Op(Ghost, MEMBERSHIP, 0, None,
       MembershipOp("add_member", PeerOrgId, Ghost, Some("manage")), FALSE)

\* The envelope's log_id is not covered by the header: the peer's
\* membership header once more, in an envelope that names the room log.
RelabelledOp ==
    Op(Peer, ROOM, 0, None,
       MembershipOp("add_member", PeerOrgId, Me, Some("write")), TRUE)

\* The ops whose envelopes can arrive from outside.
WireOps == PeerStore5.store \cup {ForgedOp, RelabelledOp}

Topics == {"t1"}

\* The relay sequence numbers ingest_op is called with.
MaxTopicSeq == 2

TopicSeqs == 1..MaxTopicSeq

\* ------------------------------------------------------------------- init
Init == IdleExcept({})

\* Room for n more rows in the bounded store.
HasRoom(n) == Cardinality(opStore) + n <= MaxOps

\* ------------------------------------------------------------ inbound ops
\* ingest_op(topic_hex, seq, op_bytes).  decodable is whether op_bytes are a
\* GossipEnvelope with a parsable header; op is the op they carry.
ingest_op(topic_hex, seq, decodable, op) ==
    /\ decodable => (op \in opStore \/ HasRoom(1))
    /\ IF ~decodable
       THEN /\ result' = Result("ingest_op", FALSE, FALSE)
            /\ UNCHANGED <<opStore, topicSeq>>
       ELSE /\ opStore' = InsertOperation(opStore, op)
            /\ topicSeq' = Put(topicSeq, topic_hex, seq)
            /\ result' = Result("ingest_op", TRUE, \E o \in opStore : Hash(o) = Hash(op))
    /\ lastTick' = NoTick
    /\ UNCHANGED <<readModel, authVars, extVars>>

\* One message of a topic's gossip drain task (subscribe_topic_inner): a
\* message that does not decode is skipped, the op of one that does is
\* inserted and the insert's result is dropped.
gossip_drain(decodable, op) ==
    /\ decodable => (op \in opStore \/ HasRoom(1))
    /\ IF ~decodable
       THEN /\ result' = Result("gossip_drain", TRUE, FALSE)
            /\ UNCHANGED opStore
       ELSE /\ opStore' = InsertOperation(opStore, op)
            /\ result' = Result("gossip_drain", TRUE, \E o \in opStore : Hash(o) = Hash(op))
    /\ lastTick' = NoTick
    /\ UNCHANGED <<readModel, topicSeq, authVars, extVars>>

\* ------------------------------------------------------------ projector
\* One tick of run_projector.
Tick ==
    LET st == project_tick(opStore, readModel)
    IN  /\ readModel' = st.rm
        /\ lastTick' = [disp |-> st.disp, cursors |-> readModel.cursors, ran |-> TRUE]
        /\ UNCHANGED <<opStore, topicSeq, result, authVars, extVars>>

\* ------------------------------------------------- user-facing mutations
\* Every call below runs with the core initialised, takes the op store lock
\* for its publish and writes the read model after it.

\* The names the callers pass.
OrgNames == {"acme"}

RoomNames == {"dev"}

Texts == {"hi"}

\* The ids a caller can name: those the read model lists.
OrgIds == DOMAIN readModel.orgs

RoomIds == DOMAIN readModel.rooms

Published(call) ==
    /\ result' = Result(call, TRUE, FALSE)
    /\ lastTick' = NoTick
    /\ UNCHANGED <<topicSeq, authVars, extVars>>

Refused(call) ==
    /\ result' = Result(call, FALSE, FALSE)
    /\ lastTick' = NoTick
    /\ UNCHANGED <<opStore, readModel, topicSeq, authVars, extVars>>

create_org(name, is_public) ==
    /\ HasRoom(2)
    /\ LET org  == SignAndStoreOp(opStore, Me, ORG, OrgOp(name, is_public))
           room == SignAndStoreOp(org.store, Me, ROOM, RoomOp(org.hash, "general"))
           rm1  == insert_org(readModel, org.hash,
                              [name |-> name, is_public |-> is_public, creator_key |-> Me])
           rm2  == upsert_membership(rm1, org.hash, Me, "manage")
           rm3  == insert_room(rm2, room.hash,
                               [org_id |-> org.hash, name |-> "general", created_by |-> Me,
                                is_archived |-> FALSE, archived_at |-> FALSE])
       IN  /\ opStore' = room.store
           /\ readModel' = rm3
    /\ Published("create_org")

create_room(org_id, name) ==
    /\ HasRoom(1)
    /\ LET pub == SignAndStoreOp(opStore, Me, ROOM, RoomOp(org_id, name))
       IN  /\ opStore' = pub.store
           /\ readModel' = insert_room(readModel, pub.hash,
                               [org_id |-> org_id, name |-> name, created_by |-> Me,
                                is_archived |-> FALSE, archived_at |-> FALSE])
    /\ Published("create_room")

\* The checks delete_room, archive_room, unarchive_room and update_room
\* start with: the caller holds Manage in the org, the room exists and
\* belongs to the org.
RoomCallAllowed(org_id, room_id) ==
    /\ has_permission(get_org_membership_state(readModel, org_id), Me, "manage")
    /\ IsSome(get_room(readModel, room_id))
    /\ Unwrap(get_room(readModel, room_id)).org_id = org_id

lib_delete_room(org_id, room_id) ==
    /\ HasRoom(1)
    /\ IF ~RoomCallAllowed(org_id, room_id) THEN Refused("delete_room")
       ELSE /\ opStore' = SignAndStoreOp(opStore, Me, ROOM,
                              RoomDeleteOp("delete_room", room_id, org_id)).store
            /\ readModel' = delete_room(readModel, room_id)
            /\ Published("delete_room")

lib_archive_room(org_id, room_id) ==
    /\ HasRoom(1)
    /\ IF ~RoomCallAllowed(org_id, room_id) THEN Refused("archive_room")
       ELSE /\ opStore' = SignAndStoreOp(opStore, Me, ROOM,
                              RoomDeleteOp("archive_room", room_id, org_id)).store
            /\ readModel' = archive_room(readModel, room_id)
            /\ Published("archive_room")

\* unarchive_room writes the read model and publishes no op.
lib_unarchive_room(org_id, room_id) ==
    IF ~RoomCallAllowed(org_id, room_id) THEN Refused("unarchive_room")
    ELSE /\ readModel' = unarchive_room(readModel, room_id)
         /\ UNCHANGED opStore
         /\ Published("unarchive_room")

lib_update_org(org_id, name, is_public) ==
    /\ HasRoom(1)
    /\ IF ~has_permission(get_org_membership_state(readModel, org_id), Me, "manage")
       THEN Refused("update_org")
       ELSE /\ opStore' = SignAndStoreOp(opStore, Me, ORG,
                              OrgUpdateOp(org_id, name, is_public)).store
            /\ readModel' = update_org(readModel, org_id, name, is_public)
            /\ Published("update_org")

lib_update_room(org_id, room_id, name) ==
    /\ HasRoom(1)
    /\ IF ~RoomCallAllowed(org_id, room_id) THEN Refused("update_room")
       ELSE /\ opStore' = SignAndStoreOp(opStore, Me, ROOM,
                              RoomUpdateOp(room_id, org_id, name)).store
            /\ readModel' = update_room(readModel, room_id, name)
            /\ Published("update_room")

send_message(room_id, text_content) ==
    /\ HasRoom(1)
    /\ LET pub == SignAndStoreOp(opStore, Me, MESSAGE,
                                 MessageOp("send", room_id, text_content))
       IN  /\ opStore' = pub.store
           /\ readModel' = insert_message(readModel, pub.hash,
                               [room_id |-> room_id, author_key |-> Me,
                                text_content |-> text_content, edited_at |-> FALSE,
                                is_deleted |-> FALSE])
    /\ Published("send_message")

add_member_direct(org_id, member_public_key, access_level) ==
    /\ HasRoom(1)
    /\ LET r == add_member(get_org_membership_state(readModel, org_id), Me,
                           member_public_key, access_level)
       IN  IF ~r.ok THEN Refused("add_member_direct")
           ELSE /\ readModel' = upsert_membership(readModel, org_id, member_public_key,
                                                  access_level)
                /\ opStore' = SignAndStoreOp(opStore, Me, MEMBERSHIP,
                                  MembershipOp("add_member", org_id, member_public_key,
                                               Some(access_level))).store
                /\ Published("add_member_direct")

remove_member_from_org(org_id, member_public_key) ==
    /\ HasRoom(1)
    /\ LET r == remove_member(get_org_membership_state(readModel, org_id), Me,
                              member_public_key)
       IN  IF ~r.ok THEN Refused("remove_member_from_org")
           ELSE /\ readModel' = delete_membership(readModel, org_id, member_public_key)
                /\ opStore' = SignAndStoreOp(opStore, Me, MEMBERSHIP,
                                  MembershipOp("remove_member", org_id, member_public_key,
                                               None)).store
                /\ Published("remove_member_from_org")

change_member_permission(org_id, member_public_key, new_access_level) ==
    /\ HasRoom(1)
    /\ LET r == change_permission(get_org_membership_state(readModel, org_id), Me,
                                  member_public_key, new_access_level)
       IN  IF ~r.ok THEN Refused("change_member_permission")
           ELSE /\ readModel' = upsert_membership(readModel, org_id, member_public_key,
                                                  new_access_level)
                /\ opStore' = SignAndStoreOp(opStore, Me, MEMBERSHIP,
                                  MembershipOp("change_permission", org_id,
                                               member_public_key,
                                               Some(new_access_level))).store
                /\ Published("change_member_permission")

\* The levels the membership calls of the model pass.
CallLevels == {"read", "manage"}

Next ==
    \/ \E t \in Topics, s \in TopicSeqs, d \in BOOLEAN, o \in WireOps \cup opStore :
          ingest_op(t, s, d, o)
    \/ \E d \in BOOLEAN, o \in WireOps \cup opStore : gossip_drain(d, o)
    \/ Tick
    \/ \E n \in OrgNames : create_org(n, FALSE)
    \/ \E g \in OrgIds, n \in RoomNames : create_room(g, n)
    \/ \E g \in OrgIds, r \in RoomIds : lib_delete_room(g, r)
    \/ \E g \in OrgIds, r \in RoomIds : lib_archive_room(g, r)
    \/ \E g \in OrgIds, r \in RoomIds : lib_unarchive_room(g, r)
    \/ \E g \in OrgIds : lib_update_org(g, Some("acme2"), None)
    \/ \E g \in OrgIds, r \in RoomIds : lib_update_room(g, r, Some("ops"))
    \/ \E r \in RoomIds, x \in Texts : send_message(Some(r), Some(x))
    \/ \E g \in OrgIds, k \in Keys, l \in CallLevels : add_member_direct(g, k, l)
    \/ \E g \in OrgIds, k \in Keys : remove_member_from_org(g, k)
    \/ \E g \in OrgIds, k \in Keys, l \in CallLevels : change_member_permission(g, k, l)

Spec == Init /\ [][Next]_vars

\* ------------------------------------------- the auth functions on their own
\* The pure functions of auth.rs, called on any membership map by any caller.
MembershipStates ==
    UNION {[ks -> LevelNames] : ks \in SUBSET Keys}

InitAuth ==
    /\ IdleExcept({"auth"})
    /\ members \in MembershipStates
    /\ authCall = NoAuthCall
    /\ permCall = <<>>

AuthCalled(fn, caller, target, r) ==
    /\ members' = r.members
    /\ authCall' = [fn |-> fn, caller |-> caller, target |-> target,
                    before |-> members, ok |-> r.ok, err |-> r.err]
    /\ UNCHANGED permCall
    /\ OthersUnchanged({"auth"})

AuthAddMember(adder_key, new_member_key, access_level) ==
    AuthCalled("add_member", adder_key, new_member_key,
               add_member(members, adder_key, new_member_key, access_level))

AuthRemoveMember(remover_key, member_to_remove) ==
    AuthCalled("remove_member", remover_key, member_to_remove,
               remove_member(members, remover_key, member_to_remove))

AuthChangePermission(changer_key, target_member, new_level) ==
    AuthCalled("change_permission", changer_key, target_member,
               change_permission(members, changer_key, target_member, new_level))

NextAuth ==
    \/ \E a \in Keys, k \in Keys, l \in LevelNames : AuthAddMember(a, k, l)
    \/ \E a \in Keys, k \in Keys : AuthRemoveMember(a, k)
    \/ \E a \in Keys, k \in Keys, l \in LevelNames : AuthChangePermission(a, k, l)

SpecAuth == InitAuth /\ [][NextAuth]_vars

\* ----------------------------------------------------------------- claims
\* The rows of one (author, log_id).
LogRows(public_key, log_id) ==
    {o \in opStore : o.public_key = public_key /\ o.log_id = log_id}

\* C1: the ops the local author published on a log_id with
\* sign_and_store_op have the seq_nums 0..k, each once; the op at seq 0 has
\* no backlink and the backlink of the op at seq i > 0 is the hash of the op
\* at seq i-1.
C1_LocalChain ==
    \A l \in LogIds :
        LET rows == LogRows(Me, l)
        IN  /\ {o.seq_num : o \in rows} = 0..(Cardinality(rows) - 1)
            /\ \A o \in rows :
                  IF o.seq_num = 0 THEN o.backlink = None
                  ELSE \E p \in rows : /\ p.seq_num = o.seq_num - 1
                                       /\ o.backlink = Some(Hash(p))

\* A local log that holds two ops.
C1_Witness ==
    \E l \in LogIds : Cardinality(LogRows(Me, l)) >= 2

\* C2: an op whose signature does not verify is never in the operation
\* store, whether it came through ingest_op or through a gossip drain.
C2_NoUnverifiedStored ==
    \A o \in opStore : o.sig_ok

\* C3: an inbound op with seq_num n > 0 is in the store only if the op at
\* seq n-1 of its (author, log_id) is, so the rows of a log have no gap.
C3_NoGap ==
    \A o \in opStore :
        o.seq_num > 0 =>
            \E p \in LogRows(o.public_key, o.log_id) : p.seq_num = o.seq_num - 1

Tables(rm) ==
    [orgs |-> rm.orgs, rooms |-> rm.rooms, messages |-> rm.messages,
     memberships |-> rm.memberships]

\* The projector has caught up: one more tick leaves the read model as it is.
CaughtUp == project_tick(opStore, readModel).rm = readModel

\* run_projector from a given read model: tick after tick until a tick
\* changes nothing, at most ticks times.
RECURSIVE CatchUp(_, _, _)
CatchUp(store, rm, ticks) ==
    IF ticks = 0 THEN rm
    ELSE LET next == project_tick(store, rm).rm
         IN  IF next = rm THEN rm ELSE CatchUp(store, next, ticks - 1)

\* The highest seq_num of a log that has rows.
Tip(public_key, log_id) ==
    Unwrap(LatestOperation(opStore, public_key, log_id)).seq_num

\* C5: once the projector has caught up, resetting the cursor of any log to
\* any value at or below the log's tip and running a tick again leaves the
\* tables of the read model as they were.
C5_ReplayIdempotent ==
    CaughtUp =>
        \A l \in LogIds, a \in Keys :
            LogRows(a, l) # {} =>
                \A c \in 0..Tip(a, l) :
                    Tables(project_tick(opStore, set_cursor(readModel, l, a, c)).rm)
                        = Tables(readModel)

\* C6: after calls of the public API alone and the projector catching up,
\* the tables of the read model are those the projector builds from the op
\* store in an empty read model.
C6_ReadModelIsProjection ==
    (CaughtUp /\ \A o \in opStore : o.public_key = Me) =>
        Tables(readModel) = Tables(CatchUp(opStore, EmptyReadModel, MaxOps))

\* The cursor row a tick started from says which seq_num the projector
\* dispatched last in an earlier tick.
CursorBefore(log_id, public_key) ==
    get_cursor([cursors |-> lastTick.cursors], log_id, public_key)

HadCursorRow(log_id, public_key) ==
    <<log_id, public_key>> \in DOMAIN lastTick.cursors

\* C7: the ops of one (author, log_id) a tick dispatches have seq_nums above
\* the last one dispatched in the ticks before, and come in strictly
\* increasing seq_num order.
C7_DispatchIncreasing ==
    lastTick.ran =>
        \A i \in DOMAIN lastTick.disp :
            LET d == lastTick.disp[i]
            IN  /\ HadCursorRow(d.log_id, d.public_key)
                      => d.seq_num > CursorBefore(d.log_id, d.public_key)
                /\ \A j \in DOMAIN lastTick.disp :
                      (/\ j < i
                       /\ lastTick.disp[j].log_id = d.log_id
                       /\ lastTick.disp[j].public_key = d.public_key)
                          => lastTick.disp[j].seq_num < d.seq_num

\* The tick that just ran dispatched the op.
Dispatched(o) ==
    \E i \in DOMAIN lastTick.disp :
        lastTick.disp[i].hash = Hash(o) /\ lastTick.disp[i].log_id = o.log_id

\* The op was at or after the place the tick started its log from.
Eligible(o) ==
    LET from == FromCursor(CursorBefore(o.log_id, o.public_key))
    IN  IsSome(from) => o.seq_num >= Unwrap(from)

\* C8: when a handler returns an error in a tick, the cursor of the op's
\* (log_id, author) is at or past the op's seq_num after the tick, the later
\* ops of that log were dispatched and so were the ops of every other log.
C8_ErrorDoesNotStopProjector ==
    lastTick.ran =>
        \A i \in DOMAIN lastTick.disp :
            LET d == lastTick.disp[i]
            IN  ~d.ok =>
                   /\ <<d.log_id, d.public_key>> \in DOMAIN readModel.cursors
                   /\ get_cursor(readModel, d.log_id, d.public_key) >= d.seq_num
                   /\ \A o \in opStore : Eligible(o) => Dispatched(o)

\* A tick in which a handler failed on an op, a later op of the same log
\* followed it and an op of another log came after both.
C8_Witness ==
    /\ lastTick.ran
    /\ \E i, j, k \in DOMAIN lastTick.disp :
          /\ i < j /\ j < k
          /\ ~lastTick.disp[i].ok
          /\ lastTick.disp[j].log_id = lastTick.disp[i].log_id
          /\ lastTick.disp[j].public_key = lastTick.disp[i].public_key
          /\ lastTick.disp[j].ok
          /\ lastTick.disp[k].log_id # lastTick.disp[i].log_id

\* The caller is absent from the map or holds Pull, Read or Write in it.
BelowManage(map, caller) ==
    caller \notin DOMAIN map \/ map[caller] \in {"pull", "read", "write"}

\* C9: add_member, remove_member and change_permission change the map only
\* for a caller that holds Manage in it; for a caller that is absent or
\* holds Pull, Read or Write they return Unauthorized and leave the map as
\* it was.
C9_OnlyManageChangesMembers ==
    authCall.fn # "" =>
        /\ members # authCall.before => ~BelowManage(authCall.before, authCall.caller)
        /\ BelowManage(authCall.before, authCall.caller) =>
              /\ ~authCall.ok
              /\ authCall.err = "Unauthorized"
              /\ members = authCall.before

\* A caller holding Write has just been refused.
C9_Witness ==
    /\ authCall.fn \in {"add_member", "remove_member", "change_permission"}
    /\ authCall.caller \in DOMAIN authCall.before
    /\ authCall.before[authCall.caller] = "write"
    /\ authCall.caller # authCall.target
    /\ ~authCall.ok

\* C10: remove_member with the caller's own key as the member to remove
\* returns an error and leaves the map as it was, whatever the caller holds.
C10_NoSelfRemoval ==
    (authCall.fn = "remove_member" /\ authCall.caller = authCall.target) =>
        /\ ~authCall.ok
        /\ members = authCall.before

\* A caller holding Manage has just asked to remove itself.
C10_Witness ==
    /\ authCall.fn = "remove_member"
    /\ authCall.caller = authCall.target
    /\ authCall.caller \in DOMAIN authCall.before
    /\ authCall.before[authCall.caller] = "manage"
    /\ ~authCall.ok

\* ----------------------------------------------------------- invite tokens
\* A key in hex, as to_hex writes it (lower case) and as hex::decode also
\* reads it (upper case); anything else does not decode to 32 bytes.
ToHex(public_key) == <<"hex", public_key>>

UpperHex(public_key) == <<"HEX", public_key>>

NotHex == <<"nothex", "">>

\* hex::decode, try_into and PublicKey::from_bytes.
ParseKey(key_hex) ==
    IF key_hex[1] \in {"hex", "HEX"} /\ key_hex[2] \in Keys
    THEN Some(key_hex[2]) ELSE None

\* AccessLevel::from_str.
LevelFromStr(str) == IF str \in LevelNames THEN Some(str) ELSE None

\* format!("{}:{}:{}:{}", ...): the four fields, none of the last three
\* holding a colon once they parse.
InvitePayload(org_id, inviter_key_hex, access_level_str, expiry_timestamp) ==
    <<org_id, inviter_key_hex, access_level_str, expiry_timestamp>>

\* An Ed25519 signature: who signed and what.
Sign(private_key_of, payload) == [signer |-> private_key_of, payload |-> payload]

\* PublicKey::verify.
VerifySig(public_key, payload, signature) ==
    signature.signer = public_key /\ signature.payload = payload

\* InviteToken::create; private_key_of is the identity whose key signs.
InviteCreate(org_id, inviter_key, access_level, expiry_timestamp, private_key_of) ==
    [org_id |-> org_id,
     inviter_key |-> ToHex(inviter_key),
     access_level |-> access_level,
     expiry_timestamp |-> expiry_timestamp,
     signature |-> Sign(private_key_of,
                        InvitePayload(org_id, ToHex(inviter_key), access_level,
                                      expiry_timestamp))]

\* A variant of the expiry test that also refuses at the expiry itself.
IsExpiredAtExpiry(current_timestamp, expiry_timestamp) ==
    current_timestamp >= expiry_timestamp

\* current_timestamp > self.expiry_timestamp
IsExpired(current_timestamp, expiry_timestamp) ==
    current_timestamp > expiry_timestamp

InviteErr(err) == [ok |-> FALSE, err |-> err, key |-> None, level |-> None]

\* InviteToken::verify.
InviteVerify(self, current_timestamp) ==
    IF IsExpired(current_timestamp, self.expiry_timestamp)
    THEN InviteErr("TokenExpired")
    ELSE IF ~IsSome(ParseKey(self.inviter_key)) THEN InviteErr("InvalidSignature")
    ELSE IF ~IsSome(LevelFromStr(self.access_level)) THEN InviteErr("InvalidSignature")
    ELSE IF ~VerifySig(Unwrap(ParseKey(self.inviter_key)),
                       InvitePayload(self.org_id, self.inviter_key, self.access_level,
                                     self.expiry_timestamp),
                       self.signature)
    THEN InviteErr("InvalidSignature")
    ELSE [ok |-> TRUE, err |-> "", key |-> ParseKey(self.inviter_key),
          level |-> LevelFromStr(self.access_level)]

\* The largest timestamp of the model.
MaxTime == 2

Times == 0..MaxTime

InviteOrgIds == {"org1", "org2"}

\* The inviters: each signs with its own private key.
Inviters == {Me, Peer}

\* The tokens create hands out.
CreatedTokens ==
    {InviteCreate(g, k, l, e, k) :
        g \in InviteOrgIds, k \in Inviters, l \in {"write", "manage"}, e \in Times}

InitInvite ==
    /\ IdleExcept({"invite"})
    /\ token \in CreatedTokens
    /\ inviteCall = <<>>

\* The holder of a token rewrites one of its fields (from_base64 reads any
\* JSON).  The signatures it can put in are those of created tokens.
InviteTamper(field, value) ==
    /\ token' = [token EXCEPT ![field] = value]
    /\ token' # token
    /\ inviteCall' = <<>>
    /\ OthersUnchanged({"invite"})

InviteVerifyCall(current_timestamp) ==
    /\ inviteCall' = <<[now |-> current_timestamp, token |-> token,
                        result |-> InviteVerify(token, current_timestamp)]>>
    /\ UNCHANGED token
    /\ OthersUnchanged({"invite"})

NextInvite ==
    \/ \E g \in InviteOrgIds : InviteTamper("org_id", g)
    \/ \E h \in {ToHex(Peer), UpperHex(Me), NotHex} : InviteTamper("inviter_key", h)
    \/ \E l \in {"manage", "admin"} : InviteTamper("access_level", l)
    \/ \E e \in Times : InviteTamper("expiry_timestamp", e)
    \/ \E t \in CreatedTokens : InviteTamper("signature", t.signature)
    \/ \E n \in Times : InviteVerifyCall(n)

SpecInvite == InitInvite /\ [][NextInvite]_vars

\* The token's signature is one its inviter_key made over the four fields as
\* they stand now.
SignedAsItStands(t) ==
    \E k \in Keys :
        /\ t.inviter_key \in {ToHex(k), UpperHex(k)}
        /\ t.signature.signer = k
        /\ t.signature.payload
              = <<t.org_id, t.inviter_key, t.access_level, t.expiry_timestamp>>

\* C11: verify(now) returns Ok exactly when now <= expiry_timestamp and the
\* signature is the inviter's over the token's current fields, and then gives
\* the inviter's key and the parsed level; past the expiry it gives
\* TokenExpired; a token not past its expiry whose fields differ from the
\* signed ones gives InvalidSignature.
C11_InviteVerify ==
    inviteCall # <<>> =>
        LET c == inviteCall[1]
            t == c.token
        IN  /\ c.result.ok <=> (c.now <= t.expiry_timestamp /\ SignedAsItStands(t))
            /\ c.result.ok =>
                  /\ \E k \in Keys : c.result.key = Some(k) /\ t.signature.signer = k
                  /\ c.result.level = Some(t.access_level)
                  /\ t.access_level \in LevelNames
            /\ c.now > t.expiry_timestamp =>
                  (~c.result.ok /\ c.result.err = "TokenExpired")
            /\ (c.now <= t.expiry_timestamp /\ ~SignedAsItStands(t)) =>
                  (~c.result.ok /\ c.result.err = "InvalidSignature")

\* verify at the very expiry of an untouched token returned Ok.
C11_Witness ==
    /\ inviteCall # <<>>
    /\ inviteCall[1].now = inviteCall[1].token.expiry_timestamp
    /\ inviteCall[1].token \in CreatedTokens
    /\ inviteCall[1].result.ok

\* ------------------------------------------------- has_permission on its own
PermCall(fn, level, member_key, required, answer) ==
    <<[fn |-> fn, level |-> level, member_key |-> member_key, required |-> required,
       before |-> members, answer |-> answer]>>

\* AccessLevel::has_permission on a level.
LevelHasPermissionCall(level, required) ==
    /\ permCall' = PermCall("AccessLevel", level, "", required,
                            level_has_permission(level, required))
    /\ UNCHANGED <<members, authCall>>
    /\ OthersUnchanged({"auth"})

\* MembershipState::has_permission on a map and a key.
StateHasPermissionCall(member_key, required) ==
    /\ permCall' = PermCall("MembershipState", "", member_key, required,
                            has_permission(members, member_key, required))
    /\ UNCHANGED <<members, authCall>>
    /\ OthersUnchanged({"auth"})

NextPerm ==
    \/ \E a \in LevelNames, r \in LevelNames : LevelHasPermissionCall(a, r)
    \/ \E k \in Keys, r \in LevelNames : StateHasPermissionCall(k, r)

SpecPerm == InitAuth /\ [][NextPerm]_vars

\* The pairs (a, r) with a at or above r in Pull < Read < Write < Manage.
AtOrAbove ==
    {<<"pull", "pull">>,
     <<"read", "pull">>, <<"read", "read">>,
     <<"write", "pull">>, <<"write", "read">>, <<"write", "write">>,
     <<"manage", "pull">>, <<"manage", "read">>, <<"manage", "write">>,
     <<"manage", "manage">>}

\* C12: a.has_permission(r) is true exactly when a is at or above r in
\* Pull < Read < Write < Manage, and MembershipState::has_permission is false
\* for a key that is not in the map.
C12_HasPermission ==
    permCall # <<>> =>
        LET c == permCall[1]
        IN  /\ c.fn = "AccessLevel" =>
                  (c.answer <=> <<c.level, c.required>> \in AtOrAbove)
            /\ (c.fn = "MembershipState" /\ c.member_key \notin DOMAIN c.before) =>
                  ~c.answer

\* Manage was asked for Manage and had it.
C12_Witness ==
    /\ permCall # <<>>
    /\ permCall[1].fn = "AccessLevel"
    /\ permCall[1].level = "manage"
    /\ permCall[1].required = "manage"
    /\ permCall[1].answer

\* ------------------------------------------------------------ group orderer
\* DeltaOrdering and DeltaFsOrdering keep the same state and run the same
\* code on it; the messages differ in their content only.

\* DeltaOrdering::init / DeltaFsOrdering::init.
OrderingInit(my_id) ==
    [my_id |-> my_id, next_seq |-> 0, queue |-> <<>>, welcomed |-> FALSE]

\* queue: push_back.
OrderingQueue(y, message) == [y EXCEPT !.queue = Append(@, message)]

\* set_welcome.
OrderingSetWelcome(y) == [y EXCEPT !.welcomed = TRUE]

\* A variant of next_ready_message that does not wait for the welcome.
NextReadyMessageUnwelcomed(y) ==
    IF y.queue = <<>> THEN [y |-> y, msg |-> None]
    ELSE [y |-> [y EXCEPT !.queue = Tail(@)], msg |-> Some(Head(y.queue))]

\* next_ready_message: nothing before the welcome, pop_front after it.
NextReadyMessage(y) ==
    IF ~y.welcomed THEN [y |-> y, msg |-> None]
    ELSE IF y.queue = <<>> THEN [y |-> y, msg |-> None]
    ELSE [y |-> [y EXCEPT !.queue = Tail(@)], msg |-> Some(Head(y.queue))]

\* The largest number of messages queued in one run of the model.
MaxQueued == 3

OrdMessages == {"m1", "m2"}

InitOrd ==
    /\ IdleExcept({"ord"})
    /\ ordState = OrderingInit(Me)
    /\ \E kind \in {"DeltaOrdering", "DeltaFsOrdering"} :
          ordHist = [kind |-> kind, arrived |-> <<>>, delivered |-> <<>>,
                     welcomedAt |-> -1]
    /\ ordCall = <<>>

OrdQueue(message) ==
    /\ Len(ordHist.arrived) < MaxQueued
    /\ ordState' = OrderingQueue(ordState, message)
    /\ ordHist' = [ordHist EXCEPT !.arrived = Append(@, message)]
    /\ ordCall' = <<>>
    /\ OthersUnchanged({"ord"})

OrdSetWelcome ==
    /\ ~ordState.welcomed
    /\ ordState' = OrderingSetWelcome(ordState)
    /\ ordHist' = [ordHist EXCEPT !.welcomedAt = Len(ordHist.arrived)]
    /\ ordCall' = <<>>
    /\ OthersUnchanged({"ord"})

OrdNextReady ==
    LET r == NextReadyMessage(ordState)
    IN  /\ ordState' = r.y
        /\ ordHist' = [ordHist EXCEPT
                          !.delivered = IF IsSome(r.msg) THEN Append(@, Unwrap(r.msg))
                                        ELSE @]
        /\ ordCall' = <<[before |-> ordState, msg |-> r.msg]>>
        /\ OthersUnchanged({"ord"})

NextOrd ==
    \/ \E m \in OrdMessages : OrdQueue(m)
    \/ OrdSetWelcome
    \/ OrdNextReady

SpecOrd == InitOrd /\ [][NextOrd]_vars

\* C15: before set_welcome next_ready_message returns none and leaves the
\* queue as it is; after it, the calls return the queued messages in
\* arrival order, each once, those queued before the welcome included.
C15_HeldUntilWelcome ==
    /\ ordHist.arrived = ordHist.delivered \o ordState.queue
    /\ ~ordState.welcomed => ordHist.delivered = <<>>
    /\ ordCall # <<>> =>
          LET c == ordCall[1]
          IN  /\ ~c.before.welcomed =>
                    (c.msg = None /\ ordState.queue = c.before.queue)
              /\ (c.before.welcomed /\ c.before.queue # <<>>) =>
                    (c.msg = Some(Head(c.before.queue))
                        /\ ordState.queue = Tail(c.before.queue))

\* Two messages queued before the welcome and one after it have all been
\* returned.
C15_Witness ==
    /\ ordState.welcomed
    /\ ordHist.welcomedAt = 2
    /\ Len(ordHist.delivered) = 3
    /\ ordHist.delivered[1] # ordHist.delivered[2]

\* ---------------------------------------------------------- room encryption
\* The key manager and key registry states are told apart by a version.
\* A group state holds its own copies of both (dcgka.my_keys, dcgka.pki).

\* encrypt_data under the group secret and a nonce.
DataEncrypt(plaintext, secret_id, nonce) ==
    [secret_id |-> secret_id, nonce |-> nonce, plaintext |-> plaintext]

\* decrypt_data: the AEAD opens under the secret and nonce it was made with.
DataDecrypt(ciphertext, secret_id, nonce) ==
    IF ciphertext.secret_id = secret_id /\ ciphertext.nonce = nonce
    THEN Some(ciphertext.plaintext) ELSE None

\* DeltaMessageContent::Application in a DeltaMessage.
ApplicationMessage(id, sender, group_secret_id, nonce, ciphertext) ==
    [id |-> id, sender |-> sender, group_secret_id |-> group_secret_id,
     nonce |-> nonce, ciphertext |-> ciphertext]

\* DeltaOrdering::next_application_message: the id is the hash of next_seq,
\* next_seq += 1.
NextApplicationMessage(y, group_secret_id, nonce, ciphertext) ==
    [y   |-> [y EXCEPT !.next_seq = @ + 1],
     msg |-> ApplicationMessage(<<"seq", y.next_seq>>, y.my_id, group_secret_id,
                                nonce, ciphertext)]

\* The group state init_room_group leaves: created by the local peer, so
\* welcomed, its create message taken from the orderer.
CreatedGroup(km, kr) ==
    [my_id |-> Me, my_keys |-> km, pki |-> kr,
     orderer |-> [OrderingSetWelcome(OrderingInit(Me)) EXCEPT !.next_seq = 1],
     secret_id |-> "s1", is_welcomed |-> TRUE]

\* EncryptionGroup::send as encrypt_for_room uses it: encrypt under the
\* current group secret and take the next application message.
GroupSend(y, plaintext, nonce) ==
    LET n == NextApplicationMessage(y.orderer, y.secret_id, nonce,
                                    DataEncrypt(plaintext, y.secret_id, nonce))
    IN  [y |-> [y EXCEPT !.orderer = n.y], msg |-> n.msg]

\* The ready loop of EncryptionGroup::receive: every message the orderer
\* gives is decrypted; a message that does not decrypt is an error.
RECURSIVE ReceiveReady(_, _)
ReceiveReady(y, outputs) ==
    LET r == NextReadyMessage(y.orderer)
    IN  IF ~IsSome(r.msg) THEN [ok |-> TRUE, y |-> y, outputs |-> outputs]
        ELSE LET msg   == Unwrap(r.msg)
                 plain == IF msg.group_secret_id = y.secret_id
                          THEN DataDecrypt(msg.ciphertext, y.secret_id, msg.nonce)
                          ELSE None
             IN  IF ~IsSome(plain) THEN [ok |-> FALSE, y |-> y, outputs |-> outputs]
                 ELSE ReceiveReady([y EXCEPT !.orderer = r.y],
                                   Append(outputs, Unwrap(plain)))

\* EncryptionGroup::receive as decrypt_for_room uses it: queue the message,
\* then process what is ready.
GroupReceive(y, msg) ==
    ReceiveReady([y EXCEPT !.orderer = OrderingQueue(@, msg)], <<>>)

\* A variant of the body that leaves the nonce field zeroed.
EncryptedBodyZeroNonce(secret_id, nonce, ciphertext, sender_key) ==
    [secret_id |-> secret_id, nonce |-> 0, ciphertext |-> ciphertext,
     sender_key |-> sender_key]

\* EncryptedBody.
EncryptedBody(secret_id, nonce, ciphertext, sender_key) ==
    [secret_id |-> secret_id, nonce |-> nonce, ciphertext |-> ciphertext,
     sender_key |-> sender_key]

\* The callers: calls reach the async functions from any thread of the
\* multi-thread runtime.
Procs == {"p1", "p2"}

\* The largest number of calls begun in one run of the model.
MaxCalls == 2

Plaintexts == {"a", "b"}

\* The nonces the Rng draws.
Nonces == {0, 1}

IdleProc ==
    [pc |-> "idle", op |-> "", arg |-> None, new |-> None, out |-> None,
     before |-> None]

\* What a call can change: the three rows and the two in-memory states.
EncState == [db |-> encDb, mem |-> encMem]

\* init_encryption and init_room_group have run; the registry may have taken
\* a key bundle since (project_profile), which the group's copy lacks.
InitEnc ==
    /\ IdleExcept({"enc"})
    /\ \E kr \in {0, 1} :
          /\ encDb = [group |-> Some(CreatedGroup(0, 0)), km |-> 0, kr |-> kr]
          /\ encMem = [km |-> 0, kr |-> kr]
    /\ encProc = [p \in Procs |-> IdleProc]
    /\ encCall = <<>>
    /\ encHist = [begun |-> 0, sends |-> 0, sent |-> {}]

\* A call returns: its result is recorded and the caller is idle again.
EncReturn(p, ok, err, out) ==
    /\ encCall' = <<[proc |-> p, op |-> encProc[p].op, arg |-> encProc[p].arg,
                     ok |-> ok, err |-> err, out |-> out,
                     before |-> encProc[p].before]>>
    /\ encProc' = [encProc EXCEPT ![p] = IdleProc]
    /\ encHist' =
          IF ok /\ encProc[p].op = "encrypt"
          THEN [encHist EXCEPT !.sends = @ + 1,
                               !.sent = @ \cup {[body |-> Unwrap(out),
                                                 plaintext |-> Unwrap(encProc[p].arg).plaintext]}]
          ELSE encHist

\* encrypt_for_room up to the first write: load the snapshot, send, build
\* the new snapshot.
EncryptBegin(p, plaintext, nonce) ==
    /\ encProc[p].pc = "idle"
    /\ encHist.begun < MaxCalls
    /\ IsSome(encDb.group)
    /\ LET gs == GroupSend(Unwrap(encDb.group), plaintext, nonce)
       IN  encProc' = [encProc EXCEPT ![p] =
              [pc |-> "save_group", op |-> "encrypt",
               arg |-> Some([plaintext |-> plaintext, nonce |-> nonce]),
               new |-> Some(gs.y),
               out |-> Some(EncryptedBody(gs.msg.group_secret_id, gs.msg.nonce,
                                          gs.msg.ciphertext, Me)),
               before |-> Some(EncState)]]
    /\ encHist' = [encHist EXCEPT !.begun = @ + 1]
    /\ UNCHANGED <<encDb, encMem, encCall>>
    /\ OthersUnchanged({"enc"})

\* decrypt_for_room up to the first write: load the snapshot, rebuild the
\* message from the body, receive.  An error of receive returns at once.
DecryptBegin(p, body) ==
    /\ encProc[p].pc = "idle"
    /\ encHist.begun < MaxCalls
    /\ IsSome(encDb.group)
    /\ LET msg == ApplicationMessage(<<"hash", body.ciphertext>>, body.sender_key,
                                     body.secret_id, body.nonce, body.ciphertext)
           r   == GroupReceive(Unwrap(encDb.group), msg)
       IN  IF r.ok
           THEN /\ encProc' = [encProc EXCEPT ![p] =
                      [pc |-> "save_group", op |-> "decrypt", arg |-> Some(body),
                       new |-> Some(r.y),
                       out |-> IF r.outputs = <<>> THEN None ELSE Some(Head(r.outputs)),
                       before |-> Some(EncState)]]
                /\ encHist' = [encHist EXCEPT !.begun = @ + 1]
                /\ UNCHANGED <<encDb, encMem, encCall>>
           ELSE /\ encCall' = <<[proc |-> p, op |-> "decrypt", arg |-> Some(body),
                                 ok |-> FALSE, err |-> "receive", out |-> None,
                                 before |-> Some(EncState)]>>
                /\ encHist' = [encHist EXCEPT !.begun = @ + 1]
                /\ UNCHANGED <<encDb, encMem, encProc>>
    /\ OthersUnchanged({"enc"})

\* A variant of the snapshot write that goes on when the write failed.
EncSaveGroupUnchecked(p, fails) ==
    /\ encProc[p].pc = "save_group"
    /\ encDb' = IF fails THEN encDb ELSE [encDb EXCEPT !.group = encProc[p].new]
    /\ encProc' = [encProc EXCEPT ![p].pc = "set_km"]
    /\ UNCHANGED <<encMem, encCall, encHist>>
    /\ OthersUnchanged({"enc"})

\* db::save_enc_group_state(...).await?
EncSaveGroup(p, fails) ==
    /\ encProc[p].pc = "save_group"
    /\ IF fails
       THEN /\ EncReturn(p, FALSE, "db", None)
            /\ UNCHANGED <<encDb, encMem>>
       ELSE /\ encDb' = [encDb EXCEPT !.group = encProc[p].new]
            /\ encProc' = [encProc EXCEPT ![p].pc = "set_km"]
            /\ UNCHANGED <<encMem, encCall, encHist>>
    /\ OthersUnchanged({"enc"})

\* *km = updated_km under the key_manager lock.
EncSetKm(p) ==
    /\ encProc[p].pc = "set_km"
    /\ encMem' = [encMem EXCEPT !.km = Unwrap(encProc[p].new).my_keys]
    /\ encProc' = [encProc EXCEPT ![p].pc = "set_kr"]
    /\ UNCHANGED <<encDb, encCall, encHist>>
    /\ OthersUnchanged({"enc"})

\* *kr = updated_kr under the key_registry lock.
EncSetKr(p) ==
    /\ encProc[p].pc = "set_kr"
    /\ encMem' = [encMem EXCEPT !.kr = Unwrap(encProc[p].new).pki]
    /\ encProc' = [encProc EXCEPT ![p].pc = "save_km"]
    /\ UNCHANGED <<encDb, encCall, encHist>>
    /\ OthersUnchanged({"enc"})

\* db::save_enc_key_manager(...).await?
EncSaveKm(p, fails) ==
    /\ encProc[p].pc = "save_km"
    /\ IF fails
       THEN /\ EncReturn(p, FALSE, "db", None)
            /\ UNCHANGED <<encDb, encMem>>
       ELSE /\ encDb' = [encDb EXCEPT !.km = Unwrap(encProc[p].new).my_keys]
            /\ encProc' = [encProc EXCEPT ![p].pc = "save_kr"]
            /\ UNCHANGED <<encMem, encCall, encHist>>
    /\ OthersUnchanged({"enc"})

\* db::save_enc_key_registry(...).await? and the return that follows it:
\* encrypt gives the body, decrypt the first application output.
EncSaveKr(p, fails) ==
    /\ encProc[p].pc = "save_kr"
    /\ IF fails
       THEN /\ EncReturn(p, FALSE, "db", None)
            /\ UNCHANGED <<encDb, encMem>>
       ELSE /\ encDb' = [encDb EXCEPT !.kr = Unwrap(encProc[p].new).pki]
            /\ IF IsSome(encProc[p].out)
               THEN EncReturn(p, TRUE, "", encProc[p].out)
               ELSE EncReturn(p, FALSE, "no application output", None)
            /\ UNCHANGED encMem
    /\ OthersUnchanged({"enc"})

\* A body made under a group secret the room's group does not hold.
ForeignBody ==
    EncryptedBody("s0", 0, DataEncrypt("a", "s0", 0), Peer)

\* The bodies a caller can hand to decrypt_for_room.
Bodies == {x.body : x \in encHist.sent} \cup {ForeignBody}

\* One caller at a time; any write may fail.
NextEnc ==
    \/ \E m \in Plaintexts, n \in Nonces : EncryptBegin("p1", m, n)
    \/ \E b \in Bodies : DecryptBegin("p1", b)
    \/ \E f \in BOOLEAN : EncSaveGroup("p1", f)
    \/ EncSetKm("p1")
    \/ EncSetKr("p1")
    \/ \E f \in BOOLEAN : EncSaveKm("p1", f)
    \/ \E f \in BOOLEAN : EncSaveKr("p1", f)

SpecEnc == InitEnc /\ [][NextEnc]_vars

\* Two callers at once; no write fails.
NextEncConc ==
    \/ \E p \in Procs, m \in Plaintexts, n \in Nonces : EncryptBegin(p, m, n)
    \/ \E p \in Procs, b \in Bodies : DecryptBegin(p, b)
    \/ \E p \in Procs : EncSaveGroup(p, FALSE)
    \/ \E p \in Procs : EncSetKm(p)
    \/ \E p \in Procs : EncSetKr(p)
    \/ \E p \in Procs : EncSaveKm(p, FALSE)
    \/ \E p \in Procs : EncSaveKr(p, FALSE)

SpecEncConc == InitEnc /\ [][NextEncConc]_vars

\* C13: a call in which a write failed returns an error and leaves the three
\* rows and the two in-memory states as they were when it began.
C13_AllOrNothing ==
    (encCall # <<>> /\ ~encCall[1].ok) =>
        EncState = Unwrap(encCall[1].before)

\* C14: when no call is under way, the persisted group state has taken the
\* update of every send that returned: next_seq has advanced once for each.
C14_NoLostUpdate ==
    (\A p \in Procs : encProc[p].pc = "idle") =>
        Unwrap(encDb.group).orderer.next_seq
            = CreatedGroup(0, 0).orderer.next_seq + encHist.sends

\* C16: decrypt_for_room on a body that encrypt_for_room returned for the
\* plaintext m, with no write failing, returns m, and the group's secret id
\* is after the call what it was before the send (the model processes no
\* membership operation).
C16_RoundTrip ==
    encCall # <<>> =>
        LET c == encCall[1]
        IN  (c.op = "decrypt" /\ c.err # "db") =>
                \A x \in encHist.sent :
                    x.body = Unwrap(c.arg) =>
                        /\ c.ok
                        /\ c.out = Some(x.plaintext)
                        /\ Unwrap(encDb.group).secret_id = x.body.secret_id
                        /\ Unwrap(Unwrap(c.before).db.group).secret_id
                              = x.body.secret_id

\* A body sent with plaintext "b" and nonce 1 has been decrypted.
C16_Witness ==
    /\ encCall # <<>>
    /\ encCall[1].op = "decrypt"
    /\ encCall[1].ok
    /\ encCall[1].out = Some("b")
    /\ \E x \in encHist.sent :
          /\ x.body = Unwrap(encCall[1].arg)
          /\ x.plaintext = "b"
          /\ x.body.ciphertext.nonce = 1

\* ---------------------------------------------- Curve25519 and AEAD helpers
\* An identity's Ed25519 seed, and the X25519 keys made from the seed and
\* from the public key: the secret and the public half of one key pair.
SeedOf(identity) == <<"seed", identity>>

ed25519_seed_to_x25519(seed_bytes) == <<"x25519_secret", seed_bytes[2]>>

ed25519_pubkey_to_x25519(pubkey_bytes) == <<"x25519_public", pubkey_bytes>>

\* An ephemeral key pair.
EphemeralSecret(e) == <<"x25519_secret", e>>

EphemeralPublic(e) == <<"x25519_public", e>>

\* A variant of the exchange whose result does not depend on the secret.
DiffieHellmanPublicOnly(secret, public) == {public[2]}

\* diffie_hellman: both sides of a pair of key pairs get the same secret.
DiffieHellman(secret, public) == {secret[2], public[2]}

\* derive_aead_key: HKDF of the shared secret, salted with the ephemeral
\* public key, for the given info string.
derive_aead_key(shared, ephemeral_pk, info) == <<shared, ephemeral_pk, info>>

\* XChaCha20-Poly1305: the ciphertext opens under the key and nonce it was
\* made with, as long as none of its bytes changed.  It is 16 bytes (the
\* tag) longer than the plaintext.
AeadEncrypt(key, nonce, plaintext) ==
    [key |-> key, nonce |-> nonce, plaintext |-> plaintext, intact |-> TRUE]

AeadDecrypt(key, nonce, ciphertext) ==
    IF ciphertext.intact /\ ciphertext.key = key /\ ciphertext.nonce = nonce
    THEN Some(ciphertext.plaintext) ELSE None

\* ------------------------------------------------------------ sealed sender
VERSION == 1

EPK_LEN == 32

NONCE_LEN == 24

MIN_LEN == 1 + EPK_LEN + NONCE_LEN + 16

\* The bytes sender_pk || op_bytes: a 32-byte key in front of the op bytes.
SealedPlaintext(sender_pk, op_bytes) == <<sender_pk>> \o op_bytes

PlaintextLen(plaintext) ==
    IF plaintext = <<>> THEN 0 ELSE 32 + (Len(plaintext) - 1)

\* seal, with the ephemeral key and the nonce the OsRng draws.  len is the
\* length of the envelope in bytes.
seal(op_bytes, sender_pk, recipient_pk, e, nonce) ==
    LET shared     == DiffieHellman(EphemeralSecret(e),
                                    ed25519_pubkey_to_x25519(recipient_pk))
        aead_key   == derive_aead_key(shared, EphemeralPublic(e),
                                      "delta:sealed-sender:v1")
        plaintext  == SealedPlaintext(sender_pk, op_bytes)
        ciphertext == AeadEncrypt(aead_key, nonce, plaintext)
    IN  [version |-> VERSION, epk |-> EphemeralPublic(e), nonce |-> nonce,
         ciphertext |-> ciphertext,
         len |-> 1 + EPK_LEN + NONCE_LEN + PlaintextLen(plaintext) + 16]

OpenErr(err) == [ok |-> FALSE, err |-> err, sender_pk |-> None, op_bytes |-> None]

\* open.
open(env, recipient_seed_bytes) ==
    IF env.len < MIN_LEN THEN OpenErr("InvalidEnvelope")
    ELSE IF env.version # VERSION THEN OpenErr("UnsupportedVersion")
    ELSE LET shared    == DiffieHellman(ed25519_seed_to_x25519(recipient_seed_bytes),
                                        env.epk)
             aead_key  == derive_aead_key(shared, env.epk, "delta:sealed-sender:v1")
             plaintext == AeadDecrypt(aead_key, env.nonce, env.ciphertext)
         IN  IF ~IsSome(plaintext) THEN OpenErr("Decrypt")
             ELSE IF PlaintextLen(Unwrap(plaintext)) < 32 THEN OpenErr("InvalidEnvelope")
             ELSE [ok |-> TRUE, err |-> "", sender_pk |-> Some(Head(Unwrap(plaintext))),
                   op_bytes |-> Some(Tail(Unwrap(plaintext)))]

\* is_sealed: the length and version byte checks only.
is_sealed(env) == env.len >= MIN_LEN /\ env.version = VERSION

\* ---------------------------------------- specification: sealed envelopes
\* Op bytes: none, one byte, two bytes.
SealOps == {<<>>, <<7>>, <<7, 9>>}

Ephemerals == {"e1", "e2"}

SealNonces == {"n1", "n2"}

\* Values a damaged version byte may take, the right one among them.
VersionBytes == {0, VERSION, 2}

\* Lengths an envelope may be cut to.
CutLens == {0, MIN_LEN - 1, MIN_LEN}

InitSeal ==
    /\ IdleExcept({"seal"})
    /\ \E op \in SealOps, sender \in Keys, recipient \in Keys,
          e \in Ephemerals, nonce \in SealNonces :
          /\ envelope = seal(op, sender, recipient, e, nonce)
          /\ sealHist = <<[op |-> op, sender |-> sender, recipient |-> recipient,
                           sealed |-> seal(op, sender, recipient, e, nonce)]>>
    /\ openCall = <<>>

\* One byte of the ciphertext changes on the wire.
SealFlipCiphertext ==
    /\ envelope.len > 1 + EPK_LEN + NONCE_LEN
    /\ envelope' = [envelope EXCEPT !.ciphertext.intact = FALSE]
    /\ UNCHANGED <<sealHist, openCall>>
    /\ OthersUnchanged({"seal"})

\* The version byte changes on the wire.
SealSetVersion(v) ==
    /\ envelope.len >= 1
    /\ envelope' = [envelope EXCEPT !.version = v]
    /\ UNCHANGED <<sealHist, openCall>>
    /\ OthersUnchanged({"seal"})

\* The envelope is cut short: the end of the ciphertext is lost.
SealCut(n) ==
    /\ n < envelope.len
    /\ envelope' = [envelope EXCEPT !.len = n, !.ciphertext.intact = FALSE]
    /\ UNCHANGED <<sealHist, openCall>>
    /\ OthersUnchanged({"seal"})

\* An identity opens the envelope with its own seed.
SealOpen(identity) ==
    /\ openCall' = <<[identity |-> identity, envelope |-> envelope,
                      result |-> open(envelope, SeedOf(identity))]>>
    /\ UNCHANGED <<envelope, sealHist>>
    /\ OthersUnchanged({"seal"})

NextSeal ==
    \/ SealFlipCiphertext
    \/ \E v \in VersionBytes : SealSetVersion(v)
    \/ \E n \in CutLens : SealCut(n)
    \/ \E k \in Keys : SealOpen(k)

SpecSeal == InitSeal /\ [][NextSeal]_vars

\* C17: opening seal(op, S, R) with the seed of R returns (S's public key,
\* op); opening it with the seed of any other identity, or after a byte of
\* its ciphertext changed, returns the decryption error; an envelope shorter
\* than MIN_LEN, or with a version byte other than VERSION, is turned down as
\* malformed before any decryption: InvalidEnvelope for the short one,
\* UnsupportedVersion for the wrong version byte.
C17_SealOpen ==
    openCall # <<>> =>
        LET c == openCall[1]
            h == sealHist[1]
            r == c.result
        IN  /\ (c.envelope = h.sealed /\ c.identity = h.recipient) =>
                   /\ r.ok
                   /\ r.sender_pk = Some(h.sender)
                   /\ r.op_bytes = Some(h.op)
            /\ (c.envelope = h.sealed /\ c.identity # h.recipient) =>
                   (~r.ok /\ r.err = "Decrypt")
            /\ c.envelope = [h.sealed EXCEPT !.ciphertext.intact = FALSE] =>
                   (~r.ok /\ r.err = "Decrypt")
            /\ c.envelope.len < MIN_LEN =>
                   (~r.ok /\ r.err = "InvalidEnvelope")
            /\ (c.envelope.len >= MIN_LEN /\ c.envelope.version # VERSION) =>
                   (~r.ok /\ r.err = "UnsupportedVersion")

\* An envelope from one identity to another, opened by its recipient.
C17_Witness ==
    /\ openCall # <<>>
    /\ openCall[1].envelope = sealHist[1].sealed
    /\ openCall[1].identity = sealHist[1].recipient
    /\ sealHist[1].sender # sealHist[1].recipient
    /\ sealHist[1].op # <<>>
    /\ openCall[1].result.ok

\* -------------------------------------------------------------------- onion
\* onion.rs has its own VERSION and MIN_LEN; EPK_LEN and NONCE_LEN are the
\* same numbers as the sealed sender's.
ONION_VERSION == 2

ONION_MIN_LEN == 1 + EPK_LEN + NONCE_LEN + 16

HKDF_INFO == "delta:onion:v1"

\* The number of values of a u16.
U16 == 65536

\* A URL is its text and the number of bytes of the text.
Url(name, len) == [name |-> name, len |-> len]

\* The first url_len bytes of a URL.
UrlPrefix(url, url_len) ==
    IF url_len = url.len THEN url
    ELSE IF url_len = 0 THEN Url("", 0)
    ELSE Url("cut", url_len)

Forward(next_hop_url, inner_packet) ==
    [kind |-> "Forward", next_hop_url |-> next_hop_url, inner_packet |-> inner_packet,
     topic_id |-> "", op |-> <<>>]

Deliver(topic_id, op) ==
    [kind |-> "Deliver", next_hop_url |-> Url("", 0), inner_packet |-> <<>>,
     topic_id |-> topic_id, op |-> op]

\* encode_payload: the type byte; for Forward the length of the URL as a
\* u16 and then the bytes of the URL and of the inner packet, one after the
\* other; for Deliver the 32 bytes of the topic and then the op.
encode_payload(p) ==
    IF p.kind = "Forward"
    THEN [tag |-> 1, url_len |-> p.next_hop_url.len % U16,
          url |-> p.next_hop_url, inner |-> p.inner_packet,
          topic_id |-> "", op |-> <<>>,
          len |-> 3 + p.next_hop_url.len + p.inner_packet[1].len]
    ELSE [tag |-> 2, url_len |-> 0, url |-> Url("", 0), inner |-> <<>>,
          topic_id |-> p.topic_id, op |-> p.op,
          len |-> 1 + 32 + Len(p.op)]

\* The bytes that follow the first url_len bytes of url || inner, read as a
\* packet: the inner packet itself when url_len is the length of the URL, and
\* otherwise bytes of the URL with the inner packet behind them.  A URL is
\* printable text, so the byte read as the version is never ONION_VERSION.
AfterUrl(url, url_len, inner) ==
    IF url_len = url.len THEN inner
    ELSE <<[version |-> 104, epk |-> <<"x25519_public", "url">>, nonce |-> "url",
            ciphertext |-> [key |-> <<>>, nonce |-> "url", plaintext |-> <<>>,
                            intact |-> FALSE],
            len |-> (url.len - url_len) + inner[1].len]>>

PayloadErr(err) ==
    [ok |-> FALSE, err |-> err, payload |-> <<>>]

PayloadOk(payload) ==
    [ok |-> TRUE, err |-> "", payload |-> <<payload>>]

\* decode_payload.
decode_payload(bytes) ==
    IF bytes.len = 0 THEN PayloadErr("InvalidPayload")
    ELSE IF bytes.tag = 1
    THEN IF bytes.len < 3 THEN PayloadErr("InvalidPayload")
         ELSE IF bytes.len < 3 + bytes.url_len THEN PayloadErr("InvalidPayload")
         ELSE PayloadOk(Forward(UrlPrefix(bytes.url, bytes.url_len),
                                AfterUrl(bytes.url, bytes.url_len, bytes.inner)))
    ELSE IF bytes.tag = 2
    THEN IF bytes.len < 1 + 32 THEN PayloadErr("InvalidPayload")
         ELSE PayloadOk(Deliver(bytes.topic_id, bytes.op))
    ELSE PayloadErr("InvalidPayload")

OnionHop(pubkey_bytes, next_url) ==
    [pubkey_bytes |-> pubkey_bytes, next_url |-> next_url]

\* encrypt_layer, with the ephemeral key and the nonce the OsRng draws.
encrypt_layer(payload, hop_pubkey_bytes, e, nonce) ==
    LET shared     == DiffieHellman(EphemeralSecret(e),
                                    ed25519_pubkey_to_x25519(hop_pubkey_bytes))
        aead_key   == derive_aead_key(shared, EphemeralPublic(e), HKDF_INFO)
        plaintext  == encode_payload(payload)
        ciphertext == AeadEncrypt(aead_key, nonce, plaintext)
    IN  [version |-> ONION_VERSION, epk |-> EphemeralPublic(e), nonce |-> nonce,
         ciphertext |-> ciphertext,
         len |-> 1 + EPK_LEN + NONCE_LEN + plaintext.len + 16]

\* decrypt_layer.
decrypt_layer(env, recipient_seed_bytes) ==
    IF env.len < ONION_MIN_LEN THEN PayloadErr("InvalidEnvelope")
    ELSE IF env.version # ONION_VERSION THEN PayloadErr("UnsupportedVersion")
    ELSE LET shared    == DiffieHellman(ed25519_seed_to_x25519(recipient_seed_bytes),
                                        env.epk)
             aead_key  == derive_aead_key(shared, env.epk, HKDF_INFO)
             plaintext == AeadDecrypt(aead_key, env.nonce, env.ciphertext)
         IN  IF ~IsSome(plaintext) THEN PayloadErr("Decrypt")
             ELSE decode_payload(Unwrap(plaintext))

\* What the OsRng gives the layer for hop i: rng is where its stream stands
\* when the build begins.
RngNames == <<"r1", "r2", "r3", "r4", "r5", "r6", "r7", "r8">>

RngDraw(rng, i) == RngNames[rng + i]

\* The loop of build_onion_packet: current wraps hops i+1 .. n; the layers
\* for hops i, i-1, .. 1 go around it.  Every layer draws its own ephemeral
\* key and nonce.
RECURSIVE WrapLayers(_, _, _, _)
WrapLayers(hops, i, current, rng) ==
    IF i = 0 THEN current
    ELSE WrapLayers(hops, i - 1,
                    encrypt_layer(Forward(hops[i + 1].next_url, <<current>>),
                                  hops[i].pubkey_bytes, RngDraw(rng, i), RngDraw(rng, i)),
                    rng)

BuildErr(err) == [ok |-> FALSE, err |-> err, packet |-> <<>>]

\* build_onion_packet.
build_onion_packet(hops, topic_id, op, rng) ==
    IF Len(hops) = 0 THEN BuildErr("EmptyRoute")
    ELSE [ok |-> TRUE, err |-> "",
          packet |-> <<WrapLayers(hops, Len(hops) - 1,
                                  encrypt_layer(Deliver(topic_id, op),
                                                hops[Len(hops)].pubkey_bytes,
                                                RngDraw(rng, Len(hops)),
                                                RngDraw(rng, Len(hops))),
                                  rng)>>]

\* ------------------------------------------- specification: onion packets
MaxHops == 3

\* A URL of the usual length, and URLs whose length is U16 and more.
OnionUrls ==
    {Url("https://hop.example.com/hop", 27), Url("https://long.example.com/", U16),
     Url("https://longer.example.com/", U16 + 27)}

OnionHops == {OnionHop(k, u) : k \in Keys, u \in OnionUrls}

Routes == UNION {[1..n -> OnionHops] : n \in 0..MaxHops}

OnionTopics == {"topic_a", "topic_b"}

OnionOps == {<<>>, <<7>>}

RngStarts == {0, 4}

InitOnion ==
    /\ IdleExcept({"onion"})
    /\ \E hops \in Routes, topic_id \in OnionTopics, op \in OnionOps, rng \in RngStarts :
          /\ onionPacket = build_onion_packet(hops, topic_id, op, rng)
          /\ onionHist = <<[hops |-> hops, topic_id |-> topic_id, op |-> op]>>
    /\ onionAt = 1
    /\ peelCall = <<>>

\* An identity peels the packet in flight with its own seed.  The hop the
\* packet was sent to posts the inner packet of a Forward to the next hop.
OnionPeel(identity) ==
    /\ onionPacket.ok
    /\ onionAt <= Len(onionHist[1].hops)
    /\ LET r == decrypt_layer(onionPacket.packet[1], SeedOf(identity))
           forwarded == /\ identity = onionHist[1].hops[onionAt].pubkey_bytes
                        /\ r.ok
                        /\ r.payload[1].kind = "Forward"
       IN  /\ peelCall' = <<[identity |-> identity, at |-> onionAt,
                             packet |-> onionPacket.packet[1], result |-> r]>>
           /\ onionPacket' = IF forwarded
                             THEN [onionPacket EXCEPT
                                      !.packet = r.payload[1].inner_packet]
                             ELSE onionPacket
           /\ onionAt' = IF forwarded THEN onionAt + 1 ELSE onionAt
    /\ UNCHANGED onionHist
    /\ OthersUnchanged({"onion"})

NextOnion == \E k \in Keys : OnionPeel(k)

SpecOnion == InitOnion /\ [][NextOnion]_vars

\* C18: for every non-empty hop list H the packet of build_onion_packet,
\* peeled by the hops in turn with their own seeds, gives hop i < n-1 a
\* Forward to the next_url of hop i+1, whose inner packet is what hop i+1
\* peels, and gives the last hop Deliver of the topic and the op; peeled
\* with any other seed a layer fails; an empty hop list gives EmptyRoute.
C18_BuildAndPeel ==
    LET h == onionHist[1]
        n == Len(h.hops)
    IN  /\ onionHist # <<>> =>
               IF n = 0 THEN ~onionPacket.ok /\ onionPacket.err = "EmptyRoute"
               ELSE onionPacket.ok
        /\ peelCall # <<>> =>
               LET c == peelCall[1]
                   r == c.result
               IN  IF c.identity = h.hops[c.at].pubkey_bytes
                   THEN /\ r.ok
                        /\ IF c.at < n
                           THEN /\ r.payload[1].kind = "Forward"
                                /\ r.payload[1].next_hop_url = h.hops[c.at + 1].next_url
                                /\ onionPacket.packet = r.payload[1].inner_packet
                                /\ onionAt = c.at + 1
                           ELSE /\ r.payload[1].kind = "Deliver"
                                /\ r.payload[1].topic_id = h.topic_id
                                /\ r.payload[1].op = h.op
                   ELSE ~r.ok

\* ------------------------------- specification: the inbound gossip drain
\* MembershipState::is_member.
is_member(state, member_key) == member_key \in DOMAIN state

\* The CBOR of the GossipEnvelope of an op, as bytes.
GossipBytes(op) == <<op>>

\* decode_cbor::<GossipEnvelope> and Header::try_from: the op, if the bytes
\* are those of one.
DecodeGossip(op_bytes) ==
    IF Len(op_bytes) = 1 THEN Some(op_bytes[1]) ELSE None

\* Bytes gossiped in the clear: CBOR opens with the byte of a map of three
\* entries, never with VERSION.
PlainBytes(op_bytes) ==
    [version |-> 163, len |-> 100, plain |-> op_bytes]

\* The ops that arrive: one a member made, one a stranger made.
DrainOps == PeerStore1.store \cup {ForgedOp}

\* Envelopes sealed by any identity to this node or to another.
SealedOnWire ==
    {seal(op_bytes, sender, recipient, "e1", "n1") :
        op_bytes \in {GossipBytes(op) : op \in DrainOps} \cup {<<>>},
        sender \in Keys, recipient \in {Me, Peer}}

\* What the gossip overlay can hand to the drain: plain bytes, sealed
\* envelopes, and sealed envelopes damaged on the way.
DrainBytes ==
    {PlainBytes(GossipBytes(op)) : op \in DrainOps}
    \cup {PlainBytes(<<>>)}
    \cup SealedOnWire
    \cup {[env EXCEPT !.ciphertext.intact = FALSE] : env \in SealedOnWire}

InitDrain ==
    /\ IdleExcept({"auth", "drain"})
    /\ members \in MembershipStates
    /\ authCall = NoAuthCall
    /\ permCall = <<>>
    /\ drainCall = <<>>

\* One turn of the drain task's loop, for one message of the stream.
gossip_drain_bytes(bytes) ==
    LET sealed   == is_sealed(bytes)
        opened   == IF sealed THEN open(bytes, SeedOf(Me)) ELSE OpenErr("")
        op_bytes == IF sealed
                    THEN IF opened.ok THEN opened.op_bytes ELSE None
                    ELSE Some(bytes.plain)
        decoded  == IF IsSome(op_bytes) THEN DecodeGossip(Unwrap(op_bytes)) ELSE None
    IN  /\ opStore' = IF IsSome(decoded)
                      THEN InsertOperation(opStore, Unwrap(decoded))
                      ELSE opStore
        /\ drainCall' = <<[bytes |-> bytes, sealed |-> sealed, opened |-> opened,
                           before |-> opStore]>>
        /\ UNCHANGED <<readModel, topicSeq, result, lastTick, authVars>>
        /\ OthersUnchanged({"core", "auth", "drain"})

NextDrain == \E bytes \in DrainBytes : gossip_drain_bytes(bytes)

SpecDrain == InitDrain /\ [][NextDrain]_vars

\* C19: the drain inserts an op that came in a sealed-sender envelope only
\* when the sender key the envelope authenticates is in the membership set,
\* and a sealed envelope that fails to open leaves the store as it was.
C19_SealedSenderChecked ==
    drainCall # <<>> =>
        LET c == drainCall[1]
        IN  c.sealed =>
               /\ opStore # c.before =>
                      /\ c.opened.ok
                      /\ is_member(members, Unwrap(c.opened.sender_pk))
               /\ ~c.opened.ok => opStore = c.before

\* ---------------------------------------------------------- DeltaTopicMap
\* HashMap::new / Logs::default: the mapping with no keys.
EmptyMap == <<>>

\* DeltaTopicMap::insert.
TopicMapInsert(map, topic_id, author, log_id) ==
    IF topic_id \in DOMAIN map
    THEN LET logs == map[topic_id]
         IN  [map EXCEPT ![topic_id] =
                 IF author \in DOMAIN logs
                 THEN [logs EXCEPT ![author] = Append(@, log_id)]
                 ELSE logs @@ (author :> <<log_id>>)]
    ELSE map @@ (topic_id :> (author :> <<log_id>>))

\* DeltaTopicMap::remove.
TopicMapRemove(map, topic_id) ==
    [t \in DOMAIN map \ {topic_id} |-> map[t]]

\* TopicMap::get.
TopicMapGet(map, topic) ==
    IF topic \in DOMAIN map THEN map[topic] ELSE EmptyMap

\* ------------------------------------------- specification: the topic map
MaxInserts == 4

TmTopics == {"room-1", "room-2"}

TmAuthors == {Me, Peer}

TmLogIds == {"1", "2"}

InitTm ==
    /\ IdleExcept({"tm"})
    /\ topicMap = EmptyMap
    /\ tmHist = [inserted |-> {}, count |-> 0]
    /\ tmCall = <<>>

TmInsert(topic_id, author, log_id) ==
    /\ tmHist.count < MaxInserts
    /\ topicMap' = TopicMapInsert(topicMap, topic_id, author, log_id)
    /\ tmHist' = [inserted |-> tmHist.inserted \cup {<<topic_id, author, log_id>>},
                  count |-> tmHist.count + 1]
    /\ tmCall' = <<>>
    /\ OthersUnchanged({"tm"})

TmRemove(topic_id) ==
    /\ topicMap' = TopicMapRemove(topicMap, topic_id)
    /\ tmHist' = [tmHist EXCEPT !.inserted = {x \in @ : x[1] # topic_id}]
    /\ tmCall' = <<>>
    /\ OthersUnchanged({"tm"})

TmGet(topic) ==
    /\ tmCall' = <<[topic |-> topic, logs |-> TopicMapGet(topicMap, topic)]>>
    /\ UNCHANGED <<topicMap, tmHist>>
    /\ OthersUnchanged({"tm"})

NextTm ==
    \/ \E t \in TmTopics, a \in TmAuthors, l \in TmLogIds : TmInsert(t, a, l)
    \/ \E t \in TmTopics : TmRemove(t)
    \/ \E t \in TmTopics : TmGet(t)

SpecTm == InitTm /\ [][NextTm]_vars

\* How many times x is in the sequence.
Occurrences(seq, x) == Cardinality({i \in 1..Len(seq) : seq[i] = x})

\* C20: after any inserts and removes, get(topic) has exactly the authors
\* with a log inserted under the topic since it was last removed, and lists
\* for each of them each inserted log id exactly once, however many times
\* the triple was inserted; what was inserted under another topic does not
\* show; a topic never inserted, or removed, gives the empty mapping.
C20_AdditiveIdempotent ==
    tmCall # <<>> =>
        LET c   == tmCall[1]
            ins == {x \in tmHist.inserted : x[1] = c.topic}
        IN  /\ DOMAIN c.logs = {x[2] : x \in ins}
            /\ \A a \in DOMAIN c.logs : \A l \in TmLogIds :
                   Occurrences(c.logs[a], l) = IF <<c.topic, a, l>> \in ins THEN 1 ELSE 0

\* -------------------------------------------------- specification: bootstrap
\* Threads that call init_core; block_on runs each call on the multi-thread
\* runtime, so two calls can be under way at once.
BootProcs == {"p1", "p2", "p3"}

\* How many times one thread calls bootstrap.
MaxBoots == 2

BootCaller(pc, ret, calls) == [pc |-> pc, ret |-> ret, calls |-> calls]

InitBoot ==
    /\ IdleExcept({"boot"})
    /\ bootCore = ""
    /\ bootProc = [p \in BootProcs |-> BootCaller("idle", "", 0)]
    /\ bootTasks = [projector |-> 0, network |-> 0, encryption |-> 0, republish |-> 0]

\* The call begins: `if CORE.get().is_some() { return Ok(()) }`.
BootCheck(p) ==
    /\ bootProc[p].pc = "idle"
    /\ bootProc[p].calls < MaxBoots
    /\ bootProc' = [bootProc EXCEPT ![p] =
                       IF bootCore # ""
                       THEN BootCaller("idle", "Ok", @.calls + 1)
                       ELSE BootCaller("init", "", @.calls + 1)]
    /\ UNCHANGED <<bootCore, bootTasks>>
    /\ OthersUnchanged({"boot"})

\* The key is parsed, both stores are opened and migrated, the blob
\* directory is made: awaits, during which other calls run.
BootInitStores(p) ==
    /\ bootProc[p].pc = "init"
    /\ bootProc' = [bootProc EXCEPT ![p].pc = "set"]
    /\ UNCHANGED <<bootCore, bootTasks>>
    /\ OthersUnchanged({"boot"})

\* `CORE.set(core).map_err(|_| StoreError::AlreadyInit)?`
BootSet(p) ==
    /\ bootProc[p].pc = "set"
    /\ IF bootCore = ""
       THEN /\ bootCore' = p
            /\ bootProc' = [bootProc EXCEPT ![p].pc = "spawn"]
            /\ UNCHANGED bootTasks
       ELSE /\ bootProc' = [bootProc EXCEPT ![p].pc = "idle", ![p].ret = "AlreadyInit"]
            /\ UNCHANGED <<bootCore, bootTasks>>
    /\ OthersUnchanged({"boot"})

\* tokio::spawn(run_projector(..))
BootSpawnProjector(p) ==
    /\ bootProc[p].pc = "spawn"
    /\ bootTasks' = [bootTasks EXCEPT !.projector = @ + 1]
    /\ bootProc' = [bootProc EXCEPT ![p].pc = "network"]
    /\ UNCHANGED bootCore
    /\ OthersUnchanged({"boot"})

\* A variant of the network step that goes on to the encryption step when
\* init_network failed.
BootNetworkUnchecked(p, fails) ==
    /\ bootProc[p].pc = "network"
    /\ bootProc' = [bootProc EXCEPT ![p].pc = "encryption"]
    /\ bootTasks' = IF bootTasks.network > 0 \/ fails THEN bootTasks
                    ELSE [bootTasks EXCEPT !.network = @ + 1]
    /\ UNCHANGED bootCore
    /\ OthersUnchanged({"boot"})

\* init_network: a no-op when NETWORK is set, else it builds the network
\* core, which may fail.
BootNetwork(p, fails) ==
    /\ bootProc[p].pc = "network"
    /\ IF bootTasks.network > 0
       THEN /\ bootProc' = [bootProc EXCEPT ![p].pc = "encryption"]
            /\ UNCHANGED bootTasks
       ELSE IF fails
       THEN /\ bootProc' = [bootProc EXCEPT ![p].pc = "idle", ![p].ret = "Init"]
            /\ UNCHANGED bootTasks
       ELSE /\ bootProc' = [bootProc EXCEPT ![p].pc = "encryption"]
            /\ bootTasks' = [bootTasks EXCEPT !.network = @ + 1]
    /\ UNCHANGED bootCore
    /\ OthersUnchanged({"boot"})

\* init_encryption: a no-op when ENCRYPTION is set, else it loads or makes
\* the key states, which may fail, and sets the singleton.
BootEncryption(p, fails) ==
    /\ bootProc[p].pc = "encryption"
    /\ IF fails /\ bootTasks.encryption = 0
       THEN /\ bootProc' = [bootProc EXCEPT ![p].pc = "idle", ![p].ret = "Other"]
            /\ UNCHANGED bootTasks
       ELSE /\ bootProc' = [bootProc EXCEPT ![p].pc = "republish"]
            /\ bootTasks' = [bootTasks EXCEPT !.encryption = 1]
    /\ UNCHANGED bootCore
    /\ OthersUnchanged({"boot"})

\* tokio::spawn(start_republish_loop(..)) and Ok(()).
BootSpawnRepublish(p) ==
    /\ bootProc[p].pc = "republish"
    /\ bootProc' = [bootProc EXCEPT ![p].pc = "idle", ![p].ret = "Ok"]
    /\ bootTasks' = [bootTasks EXCEPT !.republish = @ + 1]
    /\ UNCHANGED bootCore
    /\ OthersUnchanged({"boot"})

NextBoot ==
    \E p \in BootProcs :
        \/ BootCheck(p)
        \/ BootInitStores(p)
        \/ BootSet(p)
        \/ BootSpawnProjector(p)
        \/ \E fails \in BOOLEAN : BootNetwork(p, fails)
        \/ \E fails \in BOOLEAN : BootEncryption(p, fails)
        \/ BootSpawnRepublish(p)

SpecBoot == InitBoot /\ [][NextBoot]_vars

\* C21: once one call has published the global handle, every other call
\* that has returned, made afterwards or racing with the first, returned
\* success; and there is at most one projector task, one network core and
\* one republish loop.
C21_BootstrapIdempotent ==
    /\ \A p \in BootProcs :
           (bootCore \notin {"", p} /\ bootProc[p].pc = "idle" /\ bootProc[p].calls > 0)
               => bootProc[p].ret = "Ok"
    /\ bootTasks.projector <= 1
    /\ bootTasks.network <= 1
    /\ bootTasks.republish <= 1

\* ----------------------------- specification: mutations whose writes may fail
\* What a mutation leaves behind and returns.
Outcome(store, rm, ok) == [store |-> store, rm |-> rm, ok |-> ok]

\* create_org when the write named by fail_at returns an error ("" for
\* none): every step before it has taken effect, `?` returns at it.
CreateOrgFailing(store, rm, name, is_public, fail_at) ==
    LET org  == SignAndStoreOp(store, Me, ORG, OrgOp(name, is_public))
        room == SignAndStoreOp(org.store, Me, ROOM, RoomOp(org.hash, "general"))
        rm1  == insert_org(rm, org.hash,
                           [name |-> name, is_public |-> is_public, creator_key |-> Me])
        rm2  == upsert_membership(rm1, org.hash, Me, "manage")
        rm3  == insert_room(rm2, room.hash,
                            [org_id |-> org.hash, name |-> "general", created_by |-> Me,
                             is_archived |-> FALSE, archived_at |-> FALSE])
    IN  IF fail_at = "publish_org" THEN Outcome(store, rm, FALSE)
        ELSE IF fail_at = "publish_room" THEN Outcome(org.store, rm, FALSE)
        ELSE IF fail_at = "insert_org" THEN Outcome(room.store, rm, FALSE)
        ELSE IF fail_at = "upsert_membership" THEN Outcome(room.store, rm1, FALSE)
        ELSE IF fail_at = "insert_room" THEN Outcome(room.store, rm2, FALSE)
        ELSE Outcome(room.store, rm3, TRUE)

\* add_member_direct: the membership row is written, then the op is signed
\* and stored.
AddMemberDirectFailing(store, rm, org_id, member_public_key, access_level, fail_at) ==
    LET r   == add_member(get_org_membership_state(rm, org_id), Me,
                          member_public_key, access_level)
        rm1 == upsert_membership(rm, org_id, member_public_key, access_level)
        pub == SignAndStoreOp(store, Me, MEMBERSHIP,
                              MembershipOp("add_member", org_id, member_public_key,
                                           Some(access_level)))
    IN  IF ~r.ok THEN Outcome(store, rm, FALSE)
        ELSE IF fail_at = "upsert_membership" THEN Outcome(store, rm, FALSE)
        ELSE IF fail_at = "sign_and_store_op" THEN Outcome(store, rm1, FALSE)
        ELSE Outcome(pub.store, rm1, TRUE)

\* remove_member_from_org: the membership row is deleted, then the op is
\* signed and stored.
RemoveMemberFailing(store, rm, org_id, member_public_key, fail_at) ==
    LET r   == remove_member(get_org_membership_state(rm, org_id), Me, member_public_key)
        rm1 == delete_membership(rm, org_id, member_public_key)
        pub == SignAndStoreOp(store, Me, MEMBERSHIP,
                              MembershipOp("remove_member", org_id, member_public_key,
                                           None))
    IN  IF ~r.ok THEN Outcome(store, rm, FALSE)
        ELSE IF fail_at = "delete" THEN Outcome(store, rm, FALSE)
        ELSE IF fail_at = "sign_and_store_op" THEN Outcome(store, rm1, FALSE)
        ELSE Outcome(pub.store, rm1, TRUE)

InitMut ==
    /\ IdleExcept({"mut"})
    /\ mutCall = <<>>

\* A mutation is called and runs to its return.
MutReturns(call, out) ==
    /\ opStore' = out.store
    /\ readModel' = out.rm
    /\ mutCall' = <<[call |-> call, ok |-> out.ok,
                     store |-> opStore, rm |-> readModel]>>
    /\ UNCHANGED <<topicSeq, result, lastTick>>
    /\ OthersUnchanged({"core", "mut"})

MutCreateOrg(name, is_public, fail_at) ==
    /\ HasRoom(2)
    /\ MutReturns("create_org",
                  CreateOrgFailing(opStore, readModel, name, is_public, fail_at))

MutAddMember(org_id, member_public_key, access_level, fail_at) ==
    /\ HasRoom(1)
    /\ MutReturns("add_member_direct",
                  AddMemberDirectFailing(opStore, readModel, org_id, member_public_key,
                                         access_level, fail_at))

MutRemoveMember(org_id, member_public_key, fail_at) ==
    /\ HasRoom(1)
    /\ MutReturns("remove_member_from_org",
                  RemoveMemberFailing(opStore, readModel, org_id, member_public_key,
                                      fail_at))

NextMut ==
    \/ \E name \in OrgNames, is_public \in BOOLEAN,
          fail_at \in {"", "publish_org", "publish_room", "insert_org",
                       "upsert_membership", "insert_room"} :
          MutCreateOrg(name, is_public, fail_at)
    \/ \E org_id \in OrgIds, k \in Keys, level \in CallLevels,
          fail_at \in {"", "upsert_membership", "sign_and_store_op"} :
          MutAddMember(org_id, k, level, fail_at)
    \/ \E org_id \in OrgIds, k \in Keys,
          fail_at \in {"", "delete", "sign_and_store_op"} :
          MutRemoveMember(org_id, k, fail_at)

SpecMut == InitMut /\ [][NextMut]_vars

\* C22: a mutation that returned an error left the operation store and the
\* read model as they were; one that returned success stored its op.
C22_AllOrNothingMutation ==
    mutCall # <<>> =>
        LET c == mutCall[1]
        IN  IF c.ok
            THEN c.store \subseteq opStore /\ c.store # opStore
            ELSE opStore = c.store /\ readModel = c.rm

\* ------------------------------------------------------------ channel names
\* A name is the sequence of its characters.
Lower == {"a", "z"}

Digit == {"0", "9"}

MAX_CHANNEL_NAME_LENGTH == 50

\* CHANNEL_NAME_REGEX, ^[a-z0-9](?:[a-z0-9_-]*[a-z0-9])?$ : one letter or
\* digit, or a letter or digit, then letters, digits, '_' and '-', then a
\* letter or digit.
MatchesChannelNameRegex(name) ==
    /\ Len(name) >= 1
    /\ name[1] \in Lower \cup Digit
    /\ \/ Len(name) = 1
       \/ /\ \A i \in 2..(Len(name) - 1) : name[i] \in Lower \cup Digit \cup {"_", "-"}
          /\ name[Len(name)] \in Lower \cup Digit

\* str::contains for a pattern of two characters.
Contains2(name, c1, c2) ==
    \E i \in 1..(Len(name) - 1) : name[i] = c1 /\ name[i + 1] = c2

\* A variant that looks for consecutive hyphens only.
validate_channel_name_hyphens(name) ==
    IF name = <<>> THEN "InvalidInput"
    ELSE IF Len(name) > MAX_CHANNEL_NAME_LENGTH THEN "InvalidInput"
    ELSE IF ~MatchesChannelNameRegex(name) THEN "InvalidInput"
    ELSE IF Contains2(name, "-", "-") THEN "InvalidInput"
    ELSE ""

\* validate_channel_name: the error it returns, "" for Ok(()).
validate_channel_name(name) ==
    IF name = <<>> THEN "InvalidInput"
    ELSE IF Len(name) > MAX_CHANNEL_NAME_LENGTH THEN "InvalidInput"
    ELSE IF ~MatchesChannelNameRegex(name) THEN "InvalidInput"
    ELSE IF Contains2(name, "-", "-") \/ Contains2(name, "_", "_") THEN "InvalidInput"
    ELSE ""

\* create_room with its validation: what it leaves behind and returns.
CreateRoomNamed(store, rm, org_id, name) ==
    IF validate_channel_name(name) # "" THEN Outcome(store, rm, FALSE)
    ELSE LET pub == SignAndStoreOp(store, Me, ROOM, RoomOp(org_id, name))
         IN  Outcome(pub.store,
                     insert_room(rm, pub.hash,
                                 [org_id |-> org_id, name |-> name, created_by |-> Me,
                                  is_archived |-> FALSE, archived_at |-> FALSE]),
                     TRUE)

\* update_room with its validation; name is an Option.
UpdateRoomNamed(store, rm, org_id, room_id, name) ==
    IF ~has_permission(get_org_membership_state(rm, org_id), Me, "manage")
    THEN Outcome(store, rm, FALSE)
    ELSE IF ~IsSome(get_room(rm, room_id)) THEN Outcome(store, rm, FALSE)
    ELSE IF Unwrap(get_room(rm, room_id)).org_id # org_id THEN Outcome(store, rm, FALSE)
    ELSE IF IsSome(name) /\ validate_channel_name(Unwrap(name)) # ""
    THEN Outcome(store, rm, FALSE)
    ELSE Outcome(SignAndStoreOp(store, Me, ROOM,
                                RoomUpdateOp(room_id, org_id, name)).store,
                 update_room(rm, room_id, name), TRUE)

\* ------------------------------------------ specification: channel names
\* The characters names are made of: letters, digits, the two separators,
\* and one character the rule does not allow.
NameChars == {"a", "-", "_", "A"}

MaxNameLen == 2

\* n times the character c.
Repeat(c, n) == [i \in 1..n |-> c]

\* Short names of every shape, names with two separators in a row, names
\* with digits, and names at and around the length limit.
ChannelNames ==
    UNION {[1..n -> NameChars] : n \in 0..MaxNameLen}
    \cup {<<"a", "_", "_", "a">>, <<"a", "-", "-", "a">>, <<"a", "-", "_", "a">>,
          <<"0">>, <<"9", "_", "z">>}
    \cup {Repeat("a", MAX_CHANNEL_NAME_LENGTH), Repeat("a", MAX_CHANNEL_NAME_LENGTH + 1),
          Repeat("a", MAX_CHANNEL_NAME_LENGTH - 1) \o <<"-">>}

\* The store and read model after create_org("acme"), with the names
\* spelled out as sequences of characters.
NameStart ==
    LET org  == SignAndStoreOp({}, Me, ORG, OrgOp(<<"a", "c", "m", "e">>, FALSE))
        room == SignAndStoreOp(org.store, Me, ROOM,
                               RoomOp(org.hash, <<"g", "e", "n", "e", "r", "a", "l">>))
        rm1  == insert_org(EmptyReadModel, org.hash,
                           [name |-> <<"a", "c", "m", "e">>, is_public |-> FALSE,
                            creator_key |-> Me])
        rm2  == upsert_membership(rm1, org.hash, Me, "manage")
    IN  Outcome(room.store,
                insert_room(rm2, room.hash,
                            [org_id |-> org.hash,
                             name |-> <<"g", "e", "n", "e", "r", "a", "l">>,
                             created_by |-> Me, is_archived |-> FALSE,
                             archived_at |-> FALSE]),
                TRUE)

InitName ==
    /\ IdleExcept({"core", "name"})
    /\ opStore = NameStart.store
    /\ readModel = NameStart.rm
    /\ topicSeq = <<>>
    /\ result = Result("", TRUE, FALSE)
    /\ lastTick = NoTick
    /\ nameCall = <<>>

NameReturns(call, org_id, room_id, name, out) ==
    /\ out.ok => (out.store = opStore \/ HasRoom(1))
    /\ opStore' = out.store
    /\ readModel' = out.rm
    /\ nameCall' = <<[call |-> call, org_id |-> org_id, room_id |-> room_id,
                      name |-> name, ok |-> out.ok,
                      store |-> opStore, rm |-> readModel]>>
    /\ UNCHANGED <<topicSeq, result, lastTick>>
    /\ OthersUnchanged({"core", "name"})

NameCreateRoom(org_id, name) ==
    NameReturns("create_room", org_id, "", Some(name),
                CreateRoomNamed(opStore, readModel, org_id, name))

NameUpdateRoom(org_id, room_id, name) ==
    NameReturns("update_room", org_id, room_id, name,
                UpdateRoomNamed(opStore, readModel, org_id, room_id, name))

NextName ==
    \/ \E org_id \in OrgIds, name \in ChannelNames : NameCreateRoom(org_id, name)
    \/ \E org_id \in OrgIds, room_id \in RoomIds,
          name \in {Some(n) : n \in ChannelNames} \cup {None} :
          NameUpdateRoom(org_id, room_id, name)

SpecName == InitName /\ [][NextName]_vars

\* The channel-name rule: 1 to 50 characters, each a lowercase letter, a
\* digit, a hyphen or an underscore, the first and the last a letter or a
\* digit, and neither "--" nor "__" in it.
ChannelNameRule(name) ==
    /\ Len(name) \in 1..50
    /\ \A i \in 1..Len(name) : name[i] \in Lower \cup Digit \cup {"-", "_"}
    /\ {name[1], name[Len(name)]} \subseteq Lower \cup Digit
    /\ ~\E i \in 1..(Len(name) - 1) : name[i] = name[i + 1] /\ name[i] \in {"-", "_"}

\* C23: create_room and update_room called with a name that breaks the
\* channel-name rule return an error, publish no op and leave the read model
\* as it was; called with a name that satisfies the rule (by a manager, for
\* a room of the org) they are accepted and publish their op.
C23_ChannelNameRule ==
    nameCall # <<>> =>
        LET c == nameCall[1]
        IN  IsSome(c.name) =>
               IF ChannelNameRule(Unwrap(c.name))
               THEN c.ok /\ opStore # c.store
               ELSE ~c.ok /\ opStore = c.store /\ readModel = c.rm

\* A name with "__" in it, and nothing else wrong with it, was turned down.
C23_Witness ==
    /\ nameCall # <<>>
    /\ nameCall[1].name = Some(<<"a", "_", "_", "a">>)
    /\ ~nameCall[1].ok

\* ------------------------------------------------ create_org and the ticks
\* The op create_org published last in a log of this node.
LastOwn(log_id) == Unwrap(LatestOperation(opStore, Me, log_id))

\* The org rows this node created.
OwnOrgRows == {id \in DOMAIN readModel.orgs : readModel.orgs[id].creator_key = Me}

\* C24: after create_org and any number of projector ticks the read model
\* holds for the org one row, whose org_id is the hash of the org op, one
\* room row, named "general", whose room_id is the hash of the room op, and
\* the creator as a member with level manage; the projection of the ops adds
\* no second row to what the call wrote.
C24_CreateOrgOneRow ==
    (result.call = "create_org" /\ result.ok) =>
        LET org_id  == Hash(LastOwn(ORG))
            room_id == Hash(LastOwn(ROOM))
        IN  /\ org_id \in DOMAIN readModel.orgs
            /\ OwnOrgRows = {Hash(o) : o \in {x \in opStore : /\ x.public_key = Me
                                                               /\ x.log_id = ORG
                                                               /\ DecodesAs("OrgOp", x.body)}}
            /\ {r \in DOMAIN readModel.rooms : readModel.rooms[r].org_id = org_id}
                   = {room_id}
            /\ readModel.rooms[room_id].name = "general"
            /\ <<org_id, Me>> \in DOMAIN readModel.memberships
            /\ readModel.memberships[<<org_id, Me>>] = "manage"

\* create_org, then a tick that projected the org op and the room op.
C24_Witness ==
    /\ result.call = "create_org"
    /\ result.ok
    /\ lastTick.ran
    /\ \E i \in 1..Len(lastTick.disp) :
           lastTick.disp[i].hash = Hash(LastOwn(ORG)) /\ lastTick.disp[i].ok
    /\ \E i \in 1..Len(lastTick.disp) :
           lastTick.disp[i].hash = Hash(LastOwn(ROOM)) /\ lastTick.disp[i].ok

\* C25: the ops a tick dispatches for an (author, log_id) are exactly the
\* ops of the log with a seq_num above the cursor stored before the tick, up
\* to the tip, and all the ops of a log that has no cursor row yet; so an op
\* whose seq_num is the stored cursor is not dispatched again.
C25_DispatchAboveCursor ==
    lastTick.ran =>
        \A o \in opStore :
            Dispatched(o) <=>
                (HadCursorRow(o.log_id, o.public_key)
                    => o.seq_num > CursorBefore(o.log_id, o.public_key))

\* ------------------------------- specification: the projector keeps ticking
\* Ops arrive from outside in any order and run_projector ticks again and
\* again.  everDisp keeps the hashes of the ops any tick has dispatched,
\* tickBit tells one tick from the next.
InitLive ==
    /\ IdleExcept({"live"})
    /\ everDisp = {}
    /\ tickBit = 0

LiveTick ==
    LET st == project_tick(opStore, readModel)
    IN  /\ tickBit' = 1 - tickBit
        /\ readModel' = st.rm
        /\ lastTick' = [disp |-> st.disp, cursors |-> readModel.cursors, ran |-> TRUE]
        /\ everDisp' = everDisp \cup {st.disp[i].hash : i \in DOMAIN st.disp}
        /\ UNCHANGED <<opStore, topicSeq, result>>
        /\ OthersUnchanged({"core", "live"})

LiveArrives ==
    /\ \/ \E t \in Topics, s \in TopicSeqs, d \in BOOLEAN, o \in WireOps \cup opStore :
             ingest_op(t, s, d, o)
       \/ \E d \in BOOLEAN, o \in WireOps \cup opStore : gossip_drain(d, o)
    /\ UNCHANGED <<everDisp, tickBit>>

NextLive == LiveArrives \/ LiveTick

\* run_projector ticks every 500 ms for as long as the process lives.  A
\* tick is possible in every state and is the only step that flips
\* tickBit, so the fairness of LiveTick is stated on the flip.
Ticked == tickBit' = 1 - tickBit

SpecLive == InitLive /\ [][NextLive]_vars /\ WF_tickBit(Ticked)

AllDispatched == \A o \in opStore : Hash(o) \in everDisp

\* C26: every op in the operation store is dispatched by some tick, also
\* an op that arrives after an op with a higher seq_num of its (author,
\* log_id) has been projected.  The store only grows and everDisp only
\* grows, so this says that again and again every stored op has been
\* dispatched.
C26_EventuallyDispatched == []<>AllDispatched

\* ------------------------------------------------ membership projection
\* The author of a stored op holds Manage level in the op's org in the
\* read model rm.
AuthorIsManager(rm, o) ==
    LET key == <<Unwrap(o.body.org_id), o.public_key>>
    IN  key \in DOMAIN rm.memberships /\ rm.memberships[key] = "manage"

\* The tick of this step dispatched one op only, the membership op o.
OnlyDispatched(o) ==
    /\ lastTick'.ran
    /\ Len(lastTick'.disp) = 1
    /\ lastTick'.disp[1].hash = Hash(o)
    /\ lastTick'.disp[1].log_id = MEMBERSHIP
    /\ o.log_id = MEMBERSHIP
    /\ DecodesAs("MembershipOp", o.body)

\* C27: a tick that projects a single membership op whose author does not
\* hold Manage level in the op's org leaves the membership table unchanged.
C27_OnlyManagersChangeMembership ==
    [][\A o \in opStore :
          (OnlyDispatched(o) /\ ~AuthorIsManager(readModel, o))
              => readModel'.memberships = readModel.memberships]_vars

\* ------------------------------- specification: membership calls and ticks
\* The creator of an org makes membership calls on it while the projector
\* ticks.
MaxMembOps == 4

\* change_member_permission: the check on the rows of the read model, the
\* membership row, then the op.
ChangeMemberPermission(store, rm, org_id, member_public_key, new_access_level) ==
    LET r   == change_permission(get_org_membership_state(rm, org_id), Me,
                                 member_public_key, new_access_level)
        rm1 == upsert_membership(rm, org_id, member_public_key, new_access_level)
        pub == SignAndStoreOp(store, Me, MEMBERSHIP,
                              MembershipOp("change_permission", org_id,
                                           member_public_key, Some(new_access_level)))
    IN  IF ~r.ok THEN Outcome(store, rm, FALSE) ELSE Outcome(pub.store, rm1, TRUE)

MembStart == CreateOrgFailing({}, EmptyReadModel, "acme", FALSE, "")

InitMemb ==
    /\ IdleExcept({"core"})
    /\ opStore = MembStart.store
    /\ readModel = MembStart.rm
    /\ topicSeq = <<>>
    /\ result = Result("create_org", TRUE, FALSE)
    /\ lastTick = NoTick

MembReturns(call, out) ==
    /\ Cardinality(out.store) <= MaxMembOps
    /\ opStore' = out.store
    /\ readModel' = out.rm
    /\ result' = Result(call, out.ok, FALSE)
    /\ lastTick' = NoTick
    /\ UNCHANGED <<topicSeq, authVars, extVars>>

MembAdd ==
    \E g \in OrgIds, k \in Keys, l \in CallLevels :
        MembReturns("add_member_direct",
                    AddMemberDirectFailing(opStore, readModel, g, k, l, ""))

MembRemove ==
    \E g \in OrgIds, k \in Keys :
        MembReturns("remove_member_from_org",
                    RemoveMemberFailing(opStore, readModel, g, k, ""))

MembChange ==
    \E g \in OrgIds, k \in Keys, l \in CallLevels :
        MembReturns("change_member_permission",
                    ChangeMemberPermission(opStore, readModel, g, k, l))

NextMemb == MembAdd \/ MembRemove \/ MembChange \/ Tick

SpecMemb == InitMemb /\ [][NextMemb]_vars

\* ---------------------------------------------------------- idle ticks
\* C28: a tick that follows a tick, with no op inserted in between, leaves
\* the read model unchanged.  (Every step that is not a tick resets
\* lastTick.ran.)
C28_IdleTickChangesNothing ==
    [][(lastTick.ran /\ lastTick'.ran /\ opStore' = opStore)
          => readModel' = readModel]_vars

\* ------------------------------------------------------------- no lockout
\* The org has a member at Manage level in the read model rm.
HasManager(rm, org_id) ==
    \E k \in Keys : <<org_id, k>> \in DOMAIN rm.memberships
                    /\ rm.memberships[<<org_id, k>>] = "manage"

MembershipCalls ==
    {"add_member_direct", "remove_member_from_org", "change_member_permission"}

\* C29: an org that has a Manage-level member before an authorized
\* add_member, remove_member or change_permission call has one after it.
C29_NoLockout ==
    [][(~lastTick'.ran /\ result'.call \in MembershipCalls /\ result'.ok)
          => \A g \in OrgIds : HasManager(readModel, g) => HasManager(readModel', g)]_vars

\* ------------------------------- specification: profile ops and the registry
\* KeyRegistry::add_longterm_bundle: the registry (0 as init_encryption
\* left it) with the peer's pre-key bundle added.
AddLongtermBundle(kr) == 1

HasPeerBundle(kr) == kr = 1

\* project_profile for an op that carries a pre-key bundle: the bundle is
\* added to the shared registry under its lock and the registry is saved;
\* the result of the save is dropped.
ProjectProfileBundle(save_fails) ==
    /\ encMem' = [encMem EXCEPT !.kr = AddLongtermBundle(@)]
    /\ encDb' = IF save_fails THEN encDb
                ELSE [encDb EXCEPT !.kr = AddLongtermBundle(encMem.kr)]
    /\ UNCHANGED <<encProc, encCall, encHist>>
    /\ OthersUnchanged({"enc"})

NextEncKr ==
    \/ NextEnc
    \/ \E f \in BOOLEAN : ProjectProfileBundle(f)

SpecEncKr == InitEnc /\ [][NextEncKr]_vars

\* C30: a peer bundle that is in the in-memory registry stays in it, and
\* one that is in the persisted registry stays in it, at every step of an
\* encrypt_for_room or decrypt_for_room call.
C30_BundleStays ==
    [][/\ HasPeerBundle(encMem.kr) => HasPeerBundle(encMem'.kr)
       /\ HasPeerBundle(encDb.kr) => HasPeerBundle(encDb'.kr)]_vars

\* --------------------- specification: concurrent calls and the profile handler
\* Two callers at once and the projector's profile handler; no write fails.
NextEncLock ==
    \/ NextEncConc
    \/ ProjectProfileBundle(FALSE)

SpecEncLock == InitEnc /\ [][NextEncLock]_vars

AllCallsComplete == \A p \in Procs : encProc[p].pc = "idle"

\* C31: calls take the key manager lock, then the key registry lock, and
\* write while holding them, so that once every call has completed the
\* persisted key manager and key registry equal the in-memory ones.
C31_PersistedEqualsMemory ==
    AllCallsComplete => (encDb.km = encMem.km /\ encDb.kr = encMem.kr)

\* ------------------------------------------------ send and its persistence
\* The last call was an encrypt_for_room that returned a body.
EncryptReturned ==
    encCall # <<>> /\ encCall[1].op = "encrypt" /\ encCall[1].ok

\* The snapshot row holds a state later than the one the last call loaded.
SnapshotPersistedSince(call) ==
    /\ IsSome(encDb.group)
    /\ Unwrap(encDb.group).orderer.next_seq
          > Unwrap(Unwrap(call.before).db.group).orderer.next_seq

\* C32: when encrypt_for_room has returned a body, the new snapshot has been
\* persisted and the body's secret_id is that snapshot's group secret id; a
\* call that returned an error has returned no body.
C32_BodyAfterPersist ==
    /\ EncryptReturned =>
          /\ IsSome(encCall[1].out)
          /\ SnapshotPersistedSince(encCall[1])
          /\ Unwrap(encCall[1].out).secret_id = Unwrap(encDb.group).secret_id
    /\ (encCall # <<>> /\ ~encCall[1].ok) => encCall[1].out = None

C32_Witness == EncryptReturned /\ SnapshotPersistedSince(encCall[1])

\* ------------------------- specification: the acked membership tracker (DMs)
\* DeltaAckedDgm: the state has the member set, the removed set, the pending
\* adds and removes by op id and the acks by op id.
OpIds == {"o1"}

\* DeltaAckedDgm::create
AckedDgmCreate(my_id, initial_members) ==
    [my_id |-> my_id, members |-> initial_members, removed |-> {},
     pending_adds |-> <<>>, pending_removes |-> <<>>, acks |-> <<>>]

\* DeltaAckedDgm::add
AckedDgmAdd(y, adder, added, op) ==
    [y EXCEPT !.pending_adds = Put(@, op, <<adder, added>>),
              !.members = @ \cup {added}]

\* DeltaAckedDgm::remove
AckedDgmRemove(y, remover, removed, op) ==
    [y EXCEPT !.pending_removes = Put(@, op, <<remover, removed>>),
              !.members = @ \ {removed},
              !.removed = @ \cup {removed}]

\* DeltaAckedDgm::ack: acks.entry(key).or_default().insert(acker)
AckedDgmAck(y, acker, op) ==
    [y EXCEPT !.acks = Put(@, op, (IF op \in DOMAIN @ THEN @[op] ELSE {}) \cup {acker})]

\* DeltaAckedDgm::members_view: the viewer is not read.
members_view(y, viewer) == y.members

InitDgm ==
    /\ IdleExcept({"dgm"})
    /\ \E ms \in SUBSET Keys : Me \in ms /\ dgm = AckedDgmCreate(Me, ms)

DgmAdd(adder, added, op) ==
    /\ dgm' = AckedDgmAdd(dgm, adder, added, op)
    /\ OthersUnchanged({"dgm"})

DgmRemove(remover, removed, op) ==
    /\ dgm' = AckedDgmRemove(dgm, remover, removed, op)
    /\ OthersUnchanged({"dgm"})

DgmAck(acker, op) ==
    /\ dgm' = AckedDgmAck(dgm, acker, op)
    /\ OthersUnchanged({"dgm"})

NextDgm ==
    \/ \E a \in dgm.members, b \in Keys, op \in OpIds : DgmAdd(a, b, op)
    \/ \E a \in dgm.members, b \in Keys, op \in OpIds : DgmRemove(a, b, op)
    \/ \E a \in Keys, op \in OpIds : DgmAck(a, op)

SpecDgm == InitDgm /\ [][NextDgm]_vars

\* More than half of the members have acked the op.
AckedByQuorum(y, ms, op) ==
    /\ op \in DOMAIN y.acks
    /\ 2 * Cardinality(y.acks[op] \cap ms) > Cardinality(ms)

\* C33: the member set members_view returns changes only when a pending add
\* or remove has the acks of a quorum of the members of before the change.
C33_CommitOnQuorum ==
    [][members_view(dgm', Me) # members_view(dgm, Me)
          => \E op \in DOMAIN dgm'.pending_adds \cup DOMAIN dgm'.pending_removes :
                AckedByQuorum(dgm', members_view(dgm, Me), op)]_vars

\* --------------------------------------------------- the order of bootstrap
\* C34: the handle is published before the projector is spawned, the
\* projector before the network is initialised, the network before the
\* encryption singleton, the republish loop last; a caller is at a step
\* only when the step before it has completed.
C34_StrictOrder ==
    /\ bootTasks.projector > 0 => bootCore # ""
    /\ bootTasks.network > 0 => bootTasks.projector > 0
    /\ bootTasks.encryption > 0 => bootTasks.network > 0
    /\ bootTasks.republish > 0 => bootTasks.encryption > 0
    /\ \A p \in BootProcs :
          /\ bootProc[p].pc = "spawn" => bootCore = p
          /\ bootProc[p].pc = "network" => bootTasks.projector > 0
          /\ bootProc[p].pc = "encryption" => bootTasks.network > 0
          /\ bootProc[p].pc = "republish" => bootTasks.encryption > 0

C34_Witness ==
    bootTasks.republish > 0 /\ \E p \in BootProcs : bootProc[p].ret = "Ok"

\* No bootstrap call is under way.
NoBootUnderWay == \A p \in BootProcs : bootProc[p].pc = "idle"

\* C35: when no call is under way and a call has returned success, the
\* handle with both stores, the network core and the encryption singleton
\* are set and the projector and the republish loop are running.
C35_SuccessMeansInitialised ==
    (NoBootUnderWay /\ \E p \in BootProcs : bootProc[p].ret = "Ok")
        => /\ bootCore # ""
           /\ bootTasks.projector > 0
           /\ bootTasks.network > 0
           /\ bootTasks.encryption > 0
           /\ bootTasks.republish > 0

\* -------------------------------------- specification: subscribing to topics
\* subscribe_topic_inner called from any thread of the runtime.  sub holds
\* NetworkCore.subscribed and, per topic, the drain tasks spawned and the
\* log-sync streams opened; subProc is where each caller is.
SubTopics == {"t1", "t2"}

SubProcs == {"p1", "p2"}

\* The largest number of subscribe calls in one run of the model.
MaxSubs == 3

SubCaller(pc, topic, ret) == [pc |-> pc, topic |-> topic, ret |-> ret]

InitSub ==
    /\ IdleExcept({"sub"})
    /\ sub = [subscribed |-> {}, drains |-> [t \in SubTopics |-> 0],
              streams |-> [t \in SubTopics |-> 0], calls |-> 0]
    /\ subProc = [p \in SubProcs |-> SubCaller("idle", "", "")]

\* The call begins: the read lock is taken, `subscribed.contains(&topic_id)`
\* returns Ok(()) when the topic is marked, the lock is released.
SubCheck(p, topic_id) ==
    /\ subProc[p].pc = "idle"
    /\ sub.calls < MaxSubs
    /\ sub' = [sub EXCEPT !.calls = @ + 1]
    /\ subProc' = [subProc EXCEPT ![p] =
                      IF topic_id \in sub.subscribed
                      THEN SubCaller("idle", topic_id, "Ok")
                      ELSE SubCaller("gossip", topic_id, "")]
    /\ OthersUnchanged({"sub"})

\* net.gossip.stream(topic_id).await? and the spawn of the drain task.
SubGossipStream(p, fails) ==
    /\ subProc[p].pc = "gossip"
    /\ IF fails
       THEN /\ subProc' = [subProc EXCEPT ![p].pc = "idle", ![p].ret = "Err"]
            /\ UNCHANGED sub
       ELSE /\ subProc' = [subProc EXCEPT ![p].pc = "sync"]
            /\ sub' = [sub EXCEPT !.drains[subProc[p].topic] = @ + 1]
    /\ OthersUnchanged({"sub"})

\* net.log_sync.stream(topic_id, true).await? and mem::forget of the handle.
SubLogSync(p, fails) ==
    /\ subProc[p].pc = "sync"
    /\ IF fails
       THEN /\ subProc' = [subProc EXCEPT ![p].pc = "idle", ![p].ret = "Err"]
            /\ UNCHANGED sub
       ELSE /\ subProc' = [subProc EXCEPT ![p].pc = "mark"]
            /\ sub' = [sub EXCEPT !.streams[subProc[p].topic] = @ + 1]
    /\ OthersUnchanged({"sub"})

\* net.subscribed.write().await.insert(topic_id) and Ok(()).
SubMark(p) ==
    /\ subProc[p].pc = "mark"
    /\ sub' = [sub EXCEPT !.subscribed = @ \cup {subProc[p].topic}]
    /\ subProc' = [subProc EXCEPT ![p].pc = "idle", ![p].ret = "Ok"]
    /\ OthersUnchanged({"sub"})

NextSub ==
    \E p \in SubProcs :
        \/ \E t \in SubTopics : SubCheck(p, t)
        \/ \E fails \in BOOLEAN : SubGossipStream(p, fails)
        \/ \E fails \in BOOLEAN : SubLogSync(p, fails)
        \/ SubMark(p)

SpecSub == InitSub /\ [][NextSub]_vars

\* C36: whatever the calls and their interleaving, a topic has at most one
\* gossip drain task and at most one log-sync stream.
C36_SubscribeIdempotent ==
    \A t \in SubTopics : sub.drains[t] <= 1 /\ sub.streams[t] <= 1

\* --------------------------------- specification: concurrent local publishes
\* send_message called from any thread of the runtime.  pubLock is the
\* holder of the Mutex around core.op_store ("" when free); pubProc is where
\* each caller is, with the text it sends and the latest op it has read.
PubProcs == {"p1", "p2"}

\* The largest number of send_message calls in one run of the model.
MaxPubs == 3

PubCaller(pc, text, latest) == [pc |-> pc, text |-> text, latest |-> latest]

InitPub ==
    /\ IdleExcept({"pub"})
    /\ pubLock = ""
    /\ pubProc = [p \in PubProcs |-> PubCaller("idle", "", None)]
    /\ pubCalls = 0

PubCoreUnchanged ==
    /\ UNCHANGED <<readModel, topicSeq, result, lastTick>>
    /\ OthersUnchanged({"core", "pub"})

\* A variant of the lock that lets a second caller in.
PubLockShared(p, text) ==
    /\ pubProc[p].pc = "idle"
    /\ pubCalls < MaxPubs
    /\ pubLock' = p
    /\ pubProc' = [pubProc EXCEPT ![p] = PubCaller("latest", text, None)]
    /\ pubCalls' = pubCalls + 1
    /\ UNCHANGED opStore
    /\ PubCoreUnchanged

\* `core.op_store.lock().await`: the caller waits until the Mutex is free.
PubLock(p, text) ==
    /\ pubProc[p].pc = "idle"
    /\ pubCalls < MaxPubs
    /\ pubLock = ""
    /\ pubLock' = p
    /\ pubProc' = [pubProc EXCEPT ![p] = PubCaller("latest", text, None)]
    /\ pubCalls' = pubCalls + 1
    /\ UNCHANGED opStore
    /\ PubCoreUnchanged

\* sign_and_store_op: store.latest_operation(&public_key, &log_id).await
PubLatest(p) ==
    /\ pubProc[p].pc = "latest"
    /\ pubProc' = [pubProc EXCEPT ![p].pc = "insert",
                                  ![p].latest = LatestOperation(opStore, Me, MESSAGE)]
    /\ UNCHANGED <<opStore, pubLock, pubCalls>>
    /\ PubCoreUnchanged

\* sign_and_store_op: the header is built after the op that was read and
\* signed, store.insert_operation(..).await
PubInsert(p) ==
    /\ pubProc[p].pc = "insert"
    /\ LET nx == NextSeqAndBacklink(pubProc[p].latest)
           op == Op(Me, MESSAGE, nx.seq_num, nx.backlink,
                    MessageOp("send", None, Some(pubProc[p].text)), TRUE)
       IN  opStore' = InsertOperation(opStore, op)
    /\ pubProc' = [pubProc EXCEPT ![p].pc = "unlock"]
    /\ UNCHANGED <<pubLock, pubCalls>>
    /\ PubCoreUnchanged

\* The guard is dropped at the end of the block.
PubUnlock(p) ==
    /\ pubProc[p].pc = "unlock"
    /\ pubLock' = IF pubLock = p THEN "" ELSE pubLock
    /\ pubProc' = [pubProc EXCEPT ![p].pc = "idle"]
    /\ UNCHANGED <<opStore, pubCalls>>
    /\ PubCoreUnchanged

NextPub ==
    \E p \in PubProcs :
        \/ \E text \in {"hi", "yo"} : PubLock(p, text)
        \/ PubLatest(p)
        \/ PubInsert(p)
        \/ PubUnlock(p)

SpecPub == InitPub /\ [][NextPub]_vars

\* C37: no two stored ops of the local author in a log share a seq_num or
\* a backlink, and a caller between its lookup and its insert is alone.
C37_PublishesSerialised ==
    /\ \A o1, o2 \in opStore :
          (o1.public_key = Me /\ o2.public_key = Me /\ o1.log_id = o2.log_id
              /\ o1 # o2)
              => (o1.seq_num # o2.seq_num /\ o1.backlink # o2.backlink)
    /\ \A p, q \in PubProcs :
          (p # q /\ pubProc[p].pc \in {"latest", "insert"})
              => pubProc[q].pc \notin {"latest", "insert"}

\* Two callers have published, one of them while the other waited.
C37_Witness ==
    /\ \E o \in opStore : o.public_key = Me /\ o.seq_num = 1
    /\ \E p \in PubProcs : pubProc[p].pc = "unlock"
    /\ \E q \in PubProcs : pubProc[q].pc = "idle" /\ pubProc[q].text # ""

\* --------------------------------------------------------------- topic seq
\* db::get_topic_seq: the row's last_seq, 0 when the topic has no row.
get_topic_seq(ts, topic_hex) ==
    IF topic_hex \in DOMAIN ts THEN ts[topic_hex] ELSE 0

\* C38: the value get_topic_seq returns for a topic never decreases, and an
\* ingest_op call that fails leaves it unchanged.
C38_TopicSeqMonotonic ==
    [][\A t \in Topics :
          /\ get_topic_seq(topicSeq', t) >= get_topic_seq(topicSeq, t)
          /\ (result'.call = "ingest_op" /\ ~result'.ok /\ ~lastTick'.ran)
                => get_topic_seq(topicSeq', t) = get_topic_seq(topicSeq, t)]_vars

\* ---------------------------------------------------------------- edited_at
\* An edit op has been published.
EditPublished == \E o \in opStore : o.log_id = MESSAGE /\ o.body.op_type = "edit"

\* C39: while no edit op has been published, every message row has
\* edited_at absent, whether send_message or the projector wrote it first.
C39_UneditedStaysUnedited ==
    ~EditPublished =>
        \A id \in DOMAIN readModel.messages : ~readModel.messages[id].edited_at

====
